---- MODULE Spec2Model ----
(***************************************************************************)
(* Model of the signing service: the SignatureDevice aggregate and its     *)
(* chaining protocol (domain), the key codec and signers (crypto), the     *)
(* in-memory device repository (persistence) and the request handlers      *)
(* (api).                                                                  *)
(*                                                                         *)
(* Go strings are sequences of one-character strings; byte slices that     *)
(* hold key material are cells of a byte-array memory whose content is a   *)
(* decoded view of the PEM text.                                           *)
(***************************************************************************)
EXTENDS Integers, Sequences, FiniteSets, TLC

VARIABLES
    heap,     \* the SignatureDevice objects: reference -> fields (mu included)
    mem,      \* the backing arrays of the key byte slices: cell -> content
    known,    \* the device references client code holds
    pc,       \* per goroutine: the statement it is at
    loc,      \* per goroutine: receiver, arguments and locals of the running call
    meta,     \* per device object: how it came to be and what it has signed
    devices,  \* InMemoryDeviceRepository.devices: id -> reference of the record
    rw,       \* InMemoryDeviceRepository.mu: the writer and the readers inside
    stored,   \* per stored id: the device value the last Create/Update was given
    oks,      \* per stored id: securedData of the sign requests answered 200
    calls,    \* the number of repository calls client code has made, and of
              \* get and list requests the service has taken
    newres,   \* a NewSignatureDevice call on its own: arguments and result
    pin,      \* ParseSecuredData: the securedData argument
    pcomp,    \* the (counter, data, lastSignature) pin was composed from, or NoComp
    pres,     \* ParseSecuredData: the returned tuple, or NoRes before the call
    codec     \* a use of the key codec on its own: the bytes and the results

parseVars == <<pin, pcomp, pres, codec>>

devVars == <<heap, mem, known, pc, loc, meta>>

storeVars == <<devices, rw, stored, oks>>

vars == <<heap, mem, known, pc, loc, meta, devices, rw, stored, oks, calls,
          newres, pin, pcomp, pres, codec>>

----------------------------------------------------------------------------
(* Bounds *)

\* longest securedData argument handed to ParseSecuredData directly
MaxLen == 5
\* largest counter value composed into a securedData string
MaxCounter == 11
\* goroutines running at the same time
NThreads == 2
\* devices client code makes, and devices read from the repository it keeps
MaxObj == 1
\* SignTransaction calls: the counters of the devices client code holds and
\* the calls running add up to at most this
MaxSigns == 2
\* field writes client code makes to the devices it holds
MaxWrites == 1
\* repository calls client code makes
MaxCalls == 3
MaxRequests == 3
MaxReads == 1

Threads == 1..NThreads
\* room for the objects client code holds, the stored records and the
\* copies each running call holds
HeapSize == 2 * MaxObj + 2 + 2 * NThreads
Refs == 1..HeapSize

----------------------------------------------------------------------------
(* Strings *)

Digits == <<"0", "1", "2", "3", "4", "5", "6", "7", "8", "9">>

IsDigit(ch) == \E i \in 1..10 : Digits[i] = ch

DigitVal(ch) == (CHOOSE i \in 1..10 : Digits[i] = ch) - 1

\* strings of length at most n over the alphabet A
RECURSIVE StrUpTo(_, _)
StrUpTo(A, n) ==
    IF n = 0 THEN {<<>>}
    ELSE LET S == StrUpTo(A, n - 1)
         IN  S \cup {Append(s, ch) : s \in {x \in S : Len(x) = n - 1}, ch \in A}

\* fmt's %d of a non-negative int
RECURSIVE FormatUint(_)
FormatUint(n) ==
    IF n < 10 THEN <<Digits[n + 1]>>
    ELSE Append(FormatUint(n \div 10), Digits[(n % 10) + 1])

\* fmt's %d verb
FormatInt(n) == IF n < 0 THEN <<"-">> \o FormatUint(0 - n) ELSE FormatUint(n)

\* the last two arguments in the wrong order
Sprintf_Swapped(counter, data, lastSignature) ==
    FormatInt(counter) \o <<"_">> \o lastSignature \o <<"_">> \o data

\* fmt.Sprintf("%d_%s_%s", counter, data, lastSignature)
Sprintf_d_s_s(counter, data, lastSignature) ==
    FormatInt(counter) \o <<"_">> \o data \o <<"_">> \o lastSignature

\* index of the first occurrence of ch in s, 0 when there is none
IndexOf(s, ch) ==
    IF \E i \in 1..Len(s) : s[i] = ch
    THEN CHOOSE i \in 1..Len(s) : s[i] = ch /\ \A j \in 1..(i - 1) : s[j] # ch
    ELSE 0

\* strings.SplitN(s, sep, n) for n > 0 and a one-character separator:
\* at most n substrings, the last one is the unsplit remainder
RECURSIVE SplitN(_, _, _)
SplitN(s, sep, n) ==
    LET i == IndexOf(s, sep)
    IN  IF n <= 1 \/ i = 0 THEN <<s>>
        ELSE <<SubSeq(s, 1, i - 1)>> \o SplitN(SubSeq(s, i + 1, Len(s)), sep, n - 1)

RECURSIVE DecimalValue(_)
DecimalValue(s) ==
    IF Len(s) = 0 THEN 0
    ELSE 10 * DecimalValue(SubSeq(s, 1, Len(s) - 1)) + DigitVal(s[Len(s)])

\* strconv.Atoi: an optional sign, then one or more decimal digits.  Its range
\* error needs 19 digits or more (the Go int is 64 bits wide); the texts
\* handled here are far shorter, so only the syntax error can occur.
Atoi(s) ==
    LET signed == Len(s) > 0 /\ s[1] \in {"+", "-"}
        body   == IF signed THEN SubSeq(s, 2, Len(s)) ELSE s
        syntax == Len(body) > 0 /\ \A i \in 1..Len(body) : IsDigit(body[i])
        mag    == IF syntax THEN DecimalValue(body) ELSE 0
        neg    == signed /\ s[1] = "-"
    IN  IF syntax
        THEN [err |-> FALSE, val |-> IF neg THEN 0 - mag ELSE mag]
        ELSE [err |-> TRUE, val |-> 0]

----------------------------------------------------------------------------
(* encoding/base64 *)

B64 == <<"A", "B", "C", "D", "E", "F", "G", "H", "I", "J", "K", "L", "M",
         "N", "O", "P", "Q", "R", "S", "T", "U", "V", "W", "X", "Y", "Z",
         "a", "b", "c", "d", "e", "f", "g", "h", "i", "j", "k", "l", "m",
         "n", "o", "p", "q", "r", "s", "t", "u", "v", "w", "x", "y", "z",
         "0", "1", "2", "3", "4", "5", "6", "7", "8", "9", "+", "/">>

\* base64.StdEncoding.EncodeToString: 3 bytes to 4 characters, "=" padding
RECURSIVE Base64Std(_)
Base64Std(b) ==
    IF Len(b) = 0 THEN <<>>
    ELSE IF Len(b) = 1
    THEN <<B64[(b[1] \div 4) + 1], B64[((b[1] % 4) * 16) + 1], "=", "=">>
    ELSE IF Len(b) = 2
    THEN <<B64[(b[1] \div 4) + 1], B64[((b[1] % 4) * 16 + (b[2] \div 16)) + 1],
           B64[((b[2] % 16) * 4) + 1], "=">>
    ELSE <<B64[(b[1] \div 4) + 1], B64[((b[1] % 4) * 16 + (b[2] \div 16)) + 1],
           B64[((b[2] % 16) * 4 + (b[3] \div 64)) + 1], B64[(b[3] % 64) + 1]>>
         \o Base64Std(SubSeq(b, 4, Len(b)))

\* the byte of a character ([]byte(s) of an ASCII string)
CharCode(ch) ==
    CASE ch = "d" -> 100
      [] ch = "1" -> 49
      [] ch = "2" -> 50
      [] ch = "x" -> 120
      [] ch = "a" -> 97
      [] ch = "b" -> 98
      [] ch = "h" -> 104
      [] ch = "_" -> 95
      [] OTHER -> 63

StringBytes(s) == [i \in 1..Len(s) |-> CharCode(s[i])]

----------------------------------------------------------------------------
(* crypto: key pairs, the PEM codec, the signers *)

\* Key pairs are numbered from 1; a number stands for one private key and
\* the public key derived from it.
\* an RSA private key that decodes but is too short to sign a SHA-256 digest
WeakKey == 0

\* Content of a byte slice holding key material: the PEM block type, the
\* DER structure of its bytes and the key inside.  Type = "" is text that
\* is no PEM block.
PEM(type, der, key) == [Type |-> type, der |-> der, key |-> key]
NilBytes == PEM("", "nil", 0)
Garbage == PEM("", "garbage", 0)

\* len(b) > 0
NonEmpty(b) == b # NilBytes

\* What reading crypto/rand.Reader can do.  The operating system's random
\* source is taken to work (the Go runtime does not continue without it), so
\* the error returns that only a failed read can cause are never taken.
RandOutcomes == {"ok"}

\* the first number from n on that is not in used
RECURSIVE FirstFree(_, _)
FirstFree(used, n) == IF n \in used THEN FirstFree(used, n + 1) ELSE n

\* the key pairs found in the key material of memory m
KeysIn(m) == {m[c].key : c \in DOMAIN m}

\* ECCGenerator.Generate / RSAGenerator.Generate: a fresh key pair (RSA 2048
\* bits, ECC P-256), or an error when the random source fails.  A fresh key
\* pair is one no key material in memory m holds; which of those it is makes
\* no difference, so it is the first.
Generate(algorithm, m) ==
    {[err |-> FALSE, key |-> k] : k \in {FirstFree(KeysIn(m), 1)}}
        \cup {[err |-> TRUE, key |-> 0] : o \in RandOutcomes \ {"ok"}}

\* a marshaler that writes the private key as PKCS #8, which
\* x509.ParseECPrivateKey does not read
ECCMarshal_PKCS8(key) ==
    [public |-> PEM("PUBLIC_KEY", "PKIX-EC", key),
     private |-> PEM("PRIVATE_KEY", "PKCS8", key)]

\* ECCMarshaler.Marshal: SEC 1 private key, PKIX public key (the x509
\* encoders accept every key pair a generator returned)
ECCMarshal(key) ==
    [public |-> PEM("PUBLIC_KEY", "PKIX-EC", key),
     private |-> PEM("PRIVATE_KEY", "SEC1-EC", key)]

\* ECCMarshaler.Unmarshal: pem.Decode, then x509.ParseECPrivateKey of the
\* block's bytes; the block type is not looked at
ECCUnmarshal(privateKeyBytes) ==
    IF privateKeyBytes.Type = "" THEN [err |-> TRUE, key |-> 0]
    ELSE IF privateKeyBytes.der # "SEC1-EC" THEN [err |-> TRUE, key |-> 0]
    ELSE [err |-> FALSE, key |-> privateKeyBytes.key]

\* RSAMarshaler.Marshal: PKCS #1 private and public key blocks
RSAMarshal(key) ==
    [public |-> PEM("RSA_PUBLIC_KEY", "PKCS1-PUB", key),
     private |-> PEM("RSA_PRIVATE_KEY", "PKCS1", key)]

\* RSAMarshaler.Unmarshal: fails when the block is missing, malformed or not
\* tagged as an RSA private key
RSAUnmarshal(privateKeyBytes) ==
    IF privateKeyBytes.Type # "RSA_PRIVATE_KEY" THEN [err |-> TRUE, key |-> 0]
    ELSE IF privateKeyBytes.der # "PKCS1" THEN [err |-> TRUE, key |-> 0]
    ELSE [err |-> FALSE, key |-> privateKeyBytes.key]

\* Marshal / Unmarshal of the marshaler of an algorithm
Marshal(algorithm, key) == IF algorithm = "RSA" THEN RSAMarshal(key) ELSE ECCMarshal(key)
Unmarshal(algorithm, privateKeyBytes) ==
    IF algorithm = "RSA" THEN RSAUnmarshal(privateKeyBytes) ELSE ECCUnmarshal(privateKeyBytes)

\* no use of the codec on its own
NoKeyPair == [public |-> NilBytes, private |-> NilBytes]
NoCodec ==
    [step |-> "none", algorithm |-> "", key |-> 0, kp |-> NoKeyPair, block |-> NilBytes,
     res |-> [err |-> FALSE, key |-> 0], again |-> NoKeyPair]

\* the signatures ecdsa.Sign can return for one key and message: the nonce
\* is random, the result an ASN.1 DER sequence
ECCSignatures == {<<48, 1>>, <<48, 2>>}

\* ECCSigner.Sign: ecdsa.Sign over the SHA-256 digest, then asn1.Marshal of
\* (R, S).  PrivateKey is not nil when GetSigner built the signer; ecdsa.Sign
\* fails when the random source fails.
ECCSign(key, dataToBeSigned) ==
    {[err |-> FALSE, signature |-> sig] : sig \in ECCSignatures}
        \cup {[err |-> TRUE, signature |-> <<>>] : o \in RandOutcomes \ {"ok"}}

\* RSASigner.Sign: PKCS #1 v1.5 over the SHA-256 digest, a function of key
\* and message; fails on unusable key material
RSASign(key, dataToBeSigned) ==
    IF key = WeakKey THEN {[err |-> TRUE, signature |-> <<>>]}
    ELSE {[err |-> FALSE,
           signature |-> <<key, (Len(dataToBeSigned) * 7 + CharCode(dataToBeSigned[1])) % 256>>]}

----------------------------------------------------------------------------
(* domain: SignatureDevice *)

Algorithms == {"RSA", "ECC"}

\* a SignatureDevice object; PublicKey and PrivateKey are byte slices: the
\* cell of their backing array, 0 for a nil slice; mu is the goroutine
\* holding the mutex, 0 when it is unlocked
Device(id, label, algorithm, counter, lastSignature, pub, priv) ==
    [ID |-> id, Label |-> label, Algorithm |-> algorithm,
     SignatureCounter |-> counter, LastSignature |-> lastSignature,
     PublicKey |-> pub, PrivateKey |-> priv, mu |-> 0]

\* the content of the byte slice b in memory m
Bytes(m, b) == IF b = 0 THEN NilBytes ELSE m[b]

\* the data of a device with its key bytes read out (what a deep comparison
\* of two devices compares)
DeviceValue(d, m) ==
    [ID |-> d.ID, Label |-> d.Label, Algorithm |-> d.Algorithm,
     SignatureCounter |-> d.SignatureCounter, LastSignature |-> d.LastSignature,
     PublicKey |-> Bytes(m, d.PublicKey), PrivateKey |-> Bytes(m, d.PrivateKey)]

NoValue ==
    [ID |-> <<>>, Label |-> "", Algorithm |-> "", SignatureCounter |-> 0,
     LastSignature |-> <<>>, PublicKey |-> NilBytes, PrivateKey |-> NilBytes]

\* allocation: the lowest free reference / cell
FreeRef(h) == FirstFree(DOMAIN h, 1)
FreeCell(m) == FirstFree(DOMAIN m, 1)

\* make([]byte, len(b)); copy(...): a new backing array holding content b
AllocBytes(m, b) == m @@ (FreeCell(m) :> b)

\* a new object (&SignatureDevice{...}) holding value v, its key slices in
\* arrays of their own
AllocDevice(h, m, v) ==
    LET m1 == IF v.PublicKey # NilBytes THEN AllocBytes(m, v.PublicKey) ELSE m
        pub == IF v.PublicKey # NilBytes THEN FreeCell(m) ELSE 0
        m2 == IF v.PrivateKey # NilBytes THEN AllocBytes(m1, v.PrivateKey) ELSE m1
        priv == IF v.PrivateKey # NilBytes THEN FreeCell(m1) ELSE 0
        r == FreeRef(h)
    IN  [heap |-> h @@ (r :> Device(v.ID, v.Label, v.Algorithm, v.SignatureCounter,
                                    v.LastSignature, pub, priv)),
         mem |-> m2, ref |-> r]

\* the garbage collector: objects no root refers to, and arrays no object
\* refers to, are gone
Collect(h, m, roots) ==
    LET live == DOMAIN h \cap roots
        cells == {h[r].PublicKey : r \in live} \cup {h[r].PrivateKey : r \in live}
    IN  [heap |-> [r \in live |-> h[r]],
         mem |-> [c \in DOMAIN m \cap cells |-> m[c]]]

\* a factory that takes any algorithm name
NewSignatureDevice_AnyAlgorithm(id, algorithm, label, gen) ==
    IF id = <<>> \/ gen.err THEN [err |-> TRUE, value |-> NoValue]
    ELSE LET kp == IF algorithm = "RSA" THEN RSAMarshal(gen.key) ELSE ECCMarshal(gen.key)
         IN  [err |-> FALSE,
              value |-> [ID |-> id, Label |-> label, Algorithm |-> algorithm,
                         SignatureCounter |-> 0,
                         LastSignature |-> Base64Std(StringBytes(id)),
                         PublicKey |-> kp.public, PrivateKey |-> kp.private]]

\* a factory that forgets the chain seed
NewSignatureDevice_NoSeed(id, algorithm, label, gen) ==
    IF id = <<>> \/ algorithm \notin Algorithms \/ gen.err
    THEN [err |-> TRUE, value |-> NoValue]
    ELSE LET kp == IF algorithm = "RSA" THEN RSAMarshal(gen.key) ELSE ECCMarshal(gen.key)
         IN  [err |-> FALSE,
              value |-> [ID |-> id, Label |-> label, Algorithm |-> algorithm,
                         SignatureCounter |-> 0, LastSignature |-> <<>>,
                         PublicKey |-> kp.public, PrivateKey |-> kp.private]]

\* NewSignatureDevice; gen is what generator.Generate() returns when called
NewSignatureDevice(id, algorithm, label, gen) ==
    IF id = <<>> THEN [err |-> TRUE, value |-> NoValue]
    ELSE IF algorithm # "RSA" /\ algorithm # "ECC" THEN [err |-> TRUE, value |-> NoValue]
    ELSE IF gen.err THEN [err |-> TRUE, value |-> NoValue]
    ELSE LET kp == IF algorithm = "RSA" THEN RSAMarshal(gen.key) ELSE ECCMarshal(gen.key)
         IN  [err |-> FALSE,
              value |-> [ID |-> id, Label |-> label, Algorithm |-> algorithm,
                         SignatureCounter |-> 0,
                         LastSignature |-> Base64Std(StringBytes(id)),
                         PublicKey |-> kp.public, PrivateKey |-> kp.private]]

\* SignatureDevice.GetSigner
GetSigner(d, m) ==
    IF d.Algorithm = "RSA"
    THEN LET kp == RSAUnmarshal(Bytes(m, d.PrivateKey))
         IN  [err |-> kp.err, algorithm |-> "RSA", key |-> kp.key]
    ELSE IF d.Algorithm = "ECC"
    THEN LET kp == ECCUnmarshal(Bytes(m, d.PrivateKey))
         IN  [err |-> kp.err, algorithm |-> "ECC", key |-> kp.key]
    ELSE [err |-> TRUE, algorithm |-> d.Algorithm, key |-> 0]

\* Signer.Sign of the signer GetSigner returned
Sign(signer, dataToBeSigned) ==
    IF signer.algorithm = "RSA" THEN RSASign(signer.key, dataToBeSigned)
    ELSE ECCSign(signer.key, dataToBeSigned)

\* a copy that leaves LastSignature out
Clone_DropsLastSignature(h, m, src) ==
    IF src = 0 THEN [heap |-> h, mem |-> m, ref |-> 0]
    ELSE AllocDevice(h, m, [DeviceValue(h[src], m) EXCEPT !.LastSignature = <<>>])

\* a copy of the struct alone: the key slices still point into the arrays of
\* the original
Clone_SharesKeys(h, m, src) ==
    IF src = 0 THEN [heap |-> h, mem |-> m, ref |-> 0]
    ELSE [heap |-> h @@ (FreeRef(h) :> [h[src] EXCEPT !.mu = 0]), mem |-> m,
          ref |-> FreeRef(h)]

\* SignatureDevice.Clone: every data field copied, the key slices into new
\* arrays, the mutex fresh; Clone of nil is nil
Clone(h, m, src) ==
    IF src = 0 THEN [heap |-> h, mem |-> m, ref |-> 0]
    ELSE AllocDevice(h, m, DeviceValue(h[src], m))

----------------------------------------------------------------------------
(* Goroutines and the client code that uses device objects *)

NoChain == [counter |-> -1, last |-> <<>>]

\* the chain state of a device
Chain(d) == [counter |-> d.SignatureCounter, last |-> d.LastSignature]

\* the frame of a call: the operation, its receiver or device argument, the
\* other arguments, the locals, the results, who gets the result (ret), and
\* for a repository read what the store held when it ran (exp, after)
IdleLoc ==
    [op |-> "", dev |-> 0, id |-> <<>>, data |-> <<>>, bad |-> FALSE,
     securedData |-> <<>>, signature |-> <<>>, err |-> FALSE, pre |-> NoChain,
     outs |-> {}, exp |-> {}, after |-> FALSE, status |-> 0, body |-> {},
     ret |-> "client"]

NoNew ==
    [called |-> FALSE, id |-> <<>>, algorithm |-> "", label |-> "",
     err |-> FALSE, value |-> NoValue]

\* how an object came to be ("new": NewSignatureDevice, "get"/"list": a
\* repository read of id oid, "store": a record), whether client code has
\* only signed with it since, the successful SignTransaction results it
\* returned, in order, the writes client code made to its fields, whether a
\* SignTransaction call on it started while another was running, whether it
\* was changed since it came to be, whether the record of oid was written
\* since, and whether it was deleted since
FreshMeta(from) ==
    [from |-> from, pure |-> from = "new", log |-> <<>>, writes |-> 0,
     overlap |-> FALSE, oid |-> <<>>, dirty |-> FALSE, stale |-> FALSE, gone |-> FALSE]

FetchedMeta(from, id) == [FreshMeta(from) EXCEPT !.oid = id]

\* the goroutines past d.mu.Lock() in SignTransaction of object r
Inside(r) ==
    {t \in Threads : loc[t].dev = r /\ pc[t] \in {"sign_compose", "sign_commit", "sign_unlock"}}

\* the goroutines that have a call on object r
Using(r) == {t \in Threads : loc[t].dev = r}

\* the sum of f over the references in s
RECURSIVE Total(_, _)
Total(f, s) ==
    IF s = {} THEN 0
    ELSE LET r == CHOOSE x \in s : TRUE IN f[r] + Total(f, s \ {r})

\* what the devices client code holds have counted, the running calls added
SignsMade ==
    Total([r \in known |-> heap[r].SignatureCounter], known)
        + Cardinality({t \in Threads : loc[t].op = "Sign" /\ loc[t].dev \in known})

\* the writes client code made to the devices it holds
WritesMade == Total([r \in known |-> meta[r].writes], known)

DevInit ==
    /\ heap = <<>>
    /\ mem = <<>>
    /\ known = {}
    /\ pc = [t \in Threads |-> "idle"]
    /\ loc = [t \in Threads |-> IdleLoc]
    /\ meta = <<>>
    /\ devices = <<>>
    /\ rw = [writer |-> 0, readers |-> {}]
    /\ stored = <<>>
    /\ oks = <<>>
    /\ calls = 0

IdSet == {<<"d", "1">>, <<"d", "2">>}
DataSet == {<<"h">>, <<"a", "_", "b">>}

\* client code calls NewSignatureDevice(id, algorithm, label) and keeps the
\* device it returns
ClientNew(id, algorithm, label) ==
    \E gen \in Generate(algorithm, mem) :
        LET r == NewSignatureDevice(id, algorithm, label, gen)
            a == AllocDevice(heap, mem, r.value)
        IN  /\ ~r.err
            /\ Cardinality({o \in known : meta[o].from = "new"}) < MaxObj
            /\ heap' = a.heap
            /\ mem' = a.mem
            /\ known' = known \cup {a.ref}
            /\ meta' = meta @@ (a.ref :> FreshMeta("new"))
            /\ UNCHANGED <<pc, loc>>

\* a goroutine calls d.SignTransaction(data) on a device client code holds
SignCall(t, r, data) ==
    /\ pc[t] = "idle"
    /\ r \in known
    /\ \A u \in Using(r) : loc[u].op = "Sign"
    /\ SignsMade < MaxSigns
    /\ pc' = [pc EXCEPT ![t] = "sign_lock"]
    /\ loc' = [loc EXCEPT ![t] = [IdleLoc EXCEPT !.op = "Sign", !.dev = r, !.data = data]]
    /\ meta' = [meta EXCEPT ![r].overlap = @ \/ Using(r) # {}]
    /\ UNCHANGED <<heap, mem, known>>

\* a lock that lets everybody in
SignLock_NoExclusion(t) ==
    /\ pc[t] = "sign_lock"
    /\ heap' = [heap EXCEPT ![loc[t].dev].mu = t]
    /\ pc' = [pc EXCEPT ![t] = "sign_compose"]
    /\ loc' = [loc EXCEPT ![t].pre = Chain(heap[loc[t].dev])]
    /\ UNCHANGED <<mem, known, meta>>

\* one lock for all devices: the call goes on when no mutex is held
SignLock_Global(t) ==
    /\ pc[t] = "sign_lock"
    /\ \A r \in DOMAIN heap : heap[r].mu = 0
    /\ heap' = [heap EXCEPT ![loc[t].dev].mu = t]
    /\ pc' = [pc EXCEPT ![t] = "sign_compose"]
    /\ loc' = [loc EXCEPT ![t].pre = Chain(heap[loc[t].dev])]
    /\ UNCHANGED <<mem, known, meta>>

\* d.mu.Lock(): the call goes on when the mutex is free
SignLock(t) ==
    /\ pc[t] = "sign_lock"
    /\ heap[loc[t].dev].mu = 0
    /\ heap' = [heap EXCEPT ![loc[t].dev].mu = t]
    /\ pc' = [pc EXCEPT ![t] = "sign_compose"]
    /\ loc' = [loc EXCEPT ![t].pre = Chain(heap[loc[t].dev])]
    /\ UNCHANGED <<mem, known, meta>>

\* the counter advanced before the signature exists
SignCompose_CountsFirst(t) ==
    LET d == heap[loc[t].dev]
        securedData == Sprintf_d_s_s(d.SignatureCounter, loc[t].data, d.LastSignature)
        signer == GetSigner(d, mem)
        outs == IF signer.err THEN {[err |-> TRUE, signature |-> <<>>]}
                ELSE Sign(signer, securedData)
    IN  /\ pc[t] = "sign_compose"
        /\ \E out \in outs :
              /\ loc' = [loc EXCEPT ![t].err = out.err,
                                    ![t].securedData = securedData,
                                    ![t].signature = Base64Std(out.signature)]
              /\ pc' = [pc EXCEPT ![t] = "sign_unlock"]
        /\ heap' = [heap EXCEPT ![loc[t].dev].LastSignature = loc'[t].signature,
                                ![loc[t].dev].SignatureCounter = @ + 1]
        /\ UNCHANGED <<mem, known, meta>>

\* securedData := Sprintf(...); d.GetSigner(); signer.Sign(securedData);
\* base64 of the signature.  An error of GetSigner or Sign ends the call.
SignCompose(t) ==
    LET d == heap[loc[t].dev]
        securedData == Sprintf_d_s_s(d.SignatureCounter, loc[t].data, d.LastSignature)
        signer == GetSigner(d, mem)
    IN  /\ pc[t] = "sign_compose"
        /\ IF signer.err
           THEN /\ loc' = [loc EXCEPT ![t].err = TRUE]
                /\ pc' = [pc EXCEPT ![t] = "sign_unlock"]
           ELSE \E out \in Sign(signer, securedData) :
                  IF out.err
                  THEN /\ loc' = [loc EXCEPT ![t].err = TRUE]
                       /\ pc' = [pc EXCEPT ![t] = "sign_unlock"]
                  ELSE /\ loc' = [loc EXCEPT ![t].securedData = securedData,
                                             ![t].signature = Base64Std(out.signature)]
                       /\ pc' = [pc EXCEPT ![t] = "sign_commit"]
        /\ UNCHANGED <<heap, mem, known, meta>>

\* a commit that also writes the label
SignCommit_WritesLabel(t) ==
    /\ pc[t] = "sign_commit"
    /\ heap' = [heap EXCEPT ![loc[t].dev].LastSignature = loc[t].signature,
                            ![loc[t].dev].SignatureCounter = @ + 1,
                            ![loc[t].dev].Label = "signed"]
    /\ pc' = [pc EXCEPT ![t] = "sign_unlock"]
    /\ UNCHANGED <<mem, known, loc, meta>>

\* the chain link is not stored
SignCommit_KeepsLast(t) ==
    /\ pc[t] = "sign_commit"
    /\ heap' = [heap EXCEPT ![loc[t].dev].SignatureCounter = @ + 1]
    /\ pc' = [pc EXCEPT ![t] = "sign_unlock"]
    /\ UNCHANGED <<mem, known, loc, meta>>

\* d.LastSignature = encodedSignature; d.SignatureCounter++
SignCommit(t) ==
    /\ pc[t] = "sign_commit"
    /\ heap' = [heap EXCEPT ![loc[t].dev].LastSignature = loc[t].signature,
                            ![loc[t].dev].SignatureCounter = @ + 1]
    /\ pc' = [pc EXCEPT ![t] = "sign_unlock"]
    /\ UNCHANGED <<mem, known, loc, meta>>

\* what SignTransaction returns: (encodedSignature, securedData, nil) or
\* ("", "", err)
SignResult(t) ==
    [err |-> loc[t].err,
     signature |-> IF loc[t].err THEN <<>> ELSE loc[t].signature,
     securedData |-> IF loc[t].err THEN <<>> ELSE loc[t].securedData]

\* the deferred d.mu.Unlock() and the return to client code
SignUnlock(t) ==
    LET r == loc[t].dev
        out == SignResult(t)
    IN  /\ pc[t] = "sign_unlock"
        /\ loc[t].ret = "client"
        /\ heap' = [heap EXCEPT ![r].mu = 0]
        /\ meta' = [meta EXCEPT ![r].log =
                       IF out.err \/ ~meta[r].pure THEN @
                       ELSE Append(@, [data |-> loc[t].data, securedData |-> out.securedData,
                                       signature |-> out.signature]),
                                ![r].dirty = @ \/ ~out.err]
        /\ pc' = [pc EXCEPT ![t] = "idle"]
        /\ loc' = [loc EXCEPT ![t] = IdleLoc]
        /\ UNCHANGED <<mem, known>>

\* what client code can put into a private key slice: text that is no PEM
\* block, a short RSA key
ForeignKeys == {Garbage, PEM("RSA_PRIVATE_KEY", "PKCS1", WeakKey)}

\* Client code writes a field of a device it holds (the fields are exported;
\* key bytes are written in place).  Client code is free of data races: it
\* does not write while a SignTransaction call on the object is running.
Tamper(r, fields) ==
    /\ r \in known
    /\ Using(r) = {}
    /\ WritesMade < MaxWrites
    /\ \/ /\ "ID" \in fields
          /\ \E id \in (IdSet \cup {<<>>}) \ {heap[r].ID} :
                heap' = [heap EXCEPT ![r].ID = id]
          /\ mem' = mem
       \/ /\ "Label" \in fields
          /\ heap' = [heap EXCEPT ![r].Label = IF @ = "T" THEN "U" ELSE "T"]
          /\ mem' = mem
       \/ /\ "Algorithm" \in fields
          /\ \E a \in (Algorithms \cup {"DSA"}) \ {heap[r].Algorithm} :
                heap' = [heap EXCEPT ![r].Algorithm = a]
          /\ mem' = mem
       \/ /\ "SignatureCounter" \in fields
          /\ heap' = [heap EXCEPT ![r].SignatureCounter = @ + 1]
          /\ mem' = mem
       \/ /\ "LastSignature" \in fields
          /\ heap' = [heap EXCEPT ![r].LastSignature = IF @ = <<"X">> THEN <<"Y">> ELSE <<"X">>]
          /\ mem' = mem
       \/ /\ "PublicKey" \in fields
          /\ heap[r].PublicKey # 0
          /\ mem' = [mem EXCEPT ![heap[r].PublicKey] = IF @ = Garbage THEN NilBytes ELSE Garbage]
          /\ heap' = heap
       \/ /\ "PrivateKey" \in fields
          /\ heap[r].PrivateKey # 0
          /\ \E b \in ForeignKeys \ {mem[heap[r].PrivateKey]} :
                mem' = [mem EXCEPT ![heap[r].PrivateKey] = b]
          /\ heap' = heap
    /\ meta' = [meta EXCEPT ![r].pure = FALSE, ![r].log = <<>>, ![r].writes = @ + 1,
                            ![r].dirty = TRUE]
    /\ UNCHANGED <<known, pc, loc>>

\* what the steps of device calls leave alone, and what every step of
\* device, repository and handler code leaves alone
DevFrame == UNCHANGED <<storeVars, calls, newres, parseVars>>
AuxFrame == UNCHANGED <<calls, newres, parseVars>>
CallFrame == UNCHANGED <<newres, parseVars>>

NextDevice ==
    \/ \E a \in Algorithms : ClientNew(<<"d", "1">>, a, "L") /\ DevFrame
    \/ \E t \in Threads, r \in Refs, data \in DataSet : SignCall(t, r, data) /\ DevFrame
    \/ \E t \in Threads : SignLock(t) /\ DevFrame
    \/ \E t \in Threads : SignCompose(t) /\ DevFrame
    \/ \E t \in Threads : SignCommit(t) /\ DevFrame
    \/ \E t \in Threads : SignUnlock(t) /\ DevFrame
    \/ \E r \in Refs : Tamper(r, {"Algorithm", "PrivateKey"}) /\ DevFrame
----------------------------------------------------------------------------
(* persistence: InMemoryDeviceRepository *)

\* the references the running calls hold
Held(lc) == UNION {{lc[t].dev} \cup lc[t].outs : t \in Threads}

\* what the garbage collector starts from: client code, the map, the calls
Roots(k, dv, lc) == k \cup {dv[i] : i \in DOMAIN dv} \cup Held(lc)

\* heap, memory and object notes after a collection
Sweep(h, m, mt, roots) ==
    LET g == Collect(h, m, roots)
    IN  [heap |-> g.heap, mem |-> g.mem, meta |-> [r \in DOMAIN g.heap |-> mt[r]]]

\* the operations that take the write lock
Writes(op) == op \in {"Create", "Update", "Delete"}

\* the objects read from the record of id that client code holds and has
\* changed, the record not written since
Mutated(id) ==
    \E r \in known :
        /\ meta[r].from \in {"get", "list"}
        /\ meta[r].oid = id
        /\ meta[r].dirty
        /\ ~meta[r].stale

\* the record of id was written: the copies read before are old
Outdated(mt, id) ==
    [r \in DOMAIN mt |-> IF mt[r].oid = id THEN [mt[r] EXCEPT !.stale = TRUE] ELSE mt[r]]

\* the record of id was deleted: the copies read before are of a record
\* that is gone
Removed(mt, id) ==
    [r \in DOMAIN mt |-> IF mt[r].oid = id THEN [mt[r] EXCEPT !.stale = TRUE, !.gone = TRUE]
                         ELSE mt[r]]

\* client code calls a repository method: Create/Update with a device it
\* holds or nil (r = 0), Get/Delete with an id, List
RepoCall(t, op, r, id) ==
    /\ pc[t] = "idle"
    /\ calls < MaxCalls
    /\ calls' = calls + 1
    /\ \/ /\ op \in {"Create", "Update"}
          /\ r = 0 \/ (r \in known /\ \A u \in Using(r) : loc[u].op # "Sign")
          /\ id = <<>>
       \/ /\ op \in {"Get", "Delete"}
          /\ r = 0
       \/ /\ op = "List"
          /\ r = 0
          /\ id = <<>>
    /\ pc' = [pc EXCEPT ![t] = "repo_lock"]
    /\ loc' = [loc EXCEPT ![t] = [IdleLoc EXCEPT !.op = op, !.dev = r, !.id = id]]
    /\ UNCHANGED <<heap, mem, known, meta, storeVars>>

\* a lock that does not keep writers out
RepoLock_NoExclusion(t) ==
    /\ pc[t] = "repo_lock"
    /\ IF Writes(loc[t].op)
       THEN rw' = [rw EXCEPT !.writer = t]
       ELSE rw' = [rw EXCEPT !.readers = @ \cup {t}]
    /\ pc' = [pc EXCEPT ![t] = "repo_cs"]
    /\ UNCHANGED <<heap, mem, known, loc, meta, devices, stored, oks>>

\* r.mu.Lock() in Create, Update, Delete; r.mu.RLock() in Get, List
RepoLock(t) ==
    /\ pc[t] = "repo_lock"
    /\ rw.writer = 0
    /\ IF Writes(loc[t].op)
       THEN /\ rw.readers = {}
            /\ rw' = [rw EXCEPT !.writer = t]
       ELSE rw' = [rw EXCEPT !.readers = @ \cup {t}]
    /\ pc' = [pc EXCEPT ![t] = "repo_cs"]
    /\ UNCHANGED <<heap, mem, known, loc, meta, devices, stored, oks>>

\* the deferred r.mu.Unlock() / r.mu.RUnlock()
Unlock(l) == [l EXCEPT !.writer = 0]
RUnlock(l, t) == [l EXCEPT !.readers = @ \ {t}]

\* Create that makes a new map for the record
RepoCreate_NewMap(t) ==
    LET device == loc[t].dev
        fail == \/ device = 0
                \/ heap[device].ID = <<>>
                \/ heap[device].ID \in DOMAIN devices
        c == Clone(heap, mem, device)
        id == heap[device].ID
        dv == (id :> c.ref)
        g == Sweep(c.heap, c.mem, Outdated(meta, id) @@ (c.ref :> FreshMeta("store")),
                   Roots(known, dv, loc))
    IN  /\ pc[t] = "repo_cs"
        /\ loc[t].op = "Create"
        /\ IF fail
           THEN /\ loc' = [loc EXCEPT ![t].err = TRUE]
                /\ UNCHANGED <<heap, mem, meta, devices, stored, oks>>
           ELSE /\ heap' = g.heap
                /\ mem' = g.mem
                /\ meta' = g.meta
                /\ devices' = dv
                /\ stored' = (id :> DeviceValue(heap[device], mem))
                /\ oks' = (id :> <<>>)
                /\ loc' = loc
        /\ rw' = Unlock(rw)
        /\ pc' = [pc EXCEPT ![t] = "repo_ret"]
        /\ known' = known

\* Create without the test for an empty id
RepoCreate_AnyId(t) ==
    LET device == loc[t].dev
        fail == \/ device = 0
                \/ heap[device].ID \in DOMAIN devices
        c == Clone(heap, mem, device)
        id == heap[device].ID
        dv == (id :> c.ref) @@ devices
        g == Sweep(c.heap, c.mem, Outdated(meta, id) @@ (c.ref :> FreshMeta("store")),
                   Roots(known, dv, loc))
    IN  /\ pc[t] = "repo_cs"
        /\ loc[t].op = "Create"
        /\ IF fail
           THEN /\ loc' = [loc EXCEPT ![t].err = TRUE]
                /\ UNCHANGED <<heap, mem, meta, devices, stored, oks>>
           ELSE /\ heap' = g.heap
                /\ mem' = g.mem
                /\ meta' = g.meta
                /\ devices' = dv
                /\ stored' = (id :> DeviceValue(heap[device], mem)) @@ stored
                /\ oks' = (id :> <<>>) @@ oks
                /\ loc' = loc
        /\ rw' = Unlock(rw)
        /\ pc' = [pc EXCEPT ![t] = "repo_ret"]
        /\ known' = known

\* Create without the test for a record of the same id
RepoCreate_Overwrites(t) ==
    LET device == loc[t].dev
        fail == \/ device = 0
                \/ heap[device].ID = <<>>
        c == Clone(heap, mem, device)
        id == heap[device].ID
        dv == (id :> c.ref) @@ devices
        g == Sweep(c.heap, c.mem, Outdated(meta, id) @@ (c.ref :> FreshMeta("store")),
                   Roots(known, dv, loc))
    IN  /\ pc[t] = "repo_cs"
        /\ loc[t].op = "Create"
        /\ IF fail
           THEN /\ loc' = [loc EXCEPT ![t].err = TRUE]
                /\ UNCHANGED <<heap, mem, meta, devices, stored, oks>>
           ELSE /\ heap' = g.heap
                /\ mem' = g.mem
                /\ meta' = g.meta
                /\ devices' = dv
                /\ stored' = (id :> DeviceValue(heap[device], mem)) @@ stored
                /\ oks' = (id :> <<>>) @@ oks
                /\ loc' = loc
        /\ rw' = Unlock(rw)
        /\ pc' = [pc EXCEPT ![t] = "repo_ret"]
        /\ known' = known

\* Create that puts the caller's object into the map
RepoCreate_KeepsArgument(t) ==
    LET device == loc[t].dev
        fail == \/ device = 0
                \/ heap[device].ID = <<>>
                \/ heap[device].ID \in DOMAIN devices
        id == heap[device].ID
    IN  /\ pc[t] = "repo_cs"
        /\ loc[t].op = "Create"
        /\ IF fail
           THEN /\ loc' = [loc EXCEPT ![t].err = TRUE]
                /\ UNCHANGED <<meta, devices, stored, oks>>
           ELSE /\ meta' = Outdated(meta, id)
                /\ devices' = devices @@ (id :> device)
                /\ stored' = stored @@ (id :> DeviceValue(heap[device], mem))
                /\ oks' = oks @@ (id :> <<>>)
                /\ loc' = loc
        /\ rw' = Unlock(rw)
        /\ pc' = [pc EXCEPT ![t] = "repo_ret"]
        /\ UNCHANGED <<heap, mem, known>>

\* Create that takes a second Create of an id for done: it returns nil and
\* stores nothing
RepoCreate_SilentOnDuplicate(t) ==
    LET device == loc[t].dev
        fail == \/ device = 0
                \/ heap[device].ID = <<>>
        c == Clone(heap, mem, device)
        id == heap[device].ID
    IN  /\ pc[t] = "repo_cs"
        /\ loc[t].op = "Create"
        /\ IF fail
           THEN /\ loc' = [loc EXCEPT ![t].err = TRUE]
                /\ UNCHANGED <<heap, mem, meta, devices, stored, oks>>
           ELSE IF id \in DOMAIN devices
           THEN UNCHANGED <<heap, mem, meta, devices, stored, oks, loc>>
           ELSE /\ heap' = c.heap
                /\ mem' = c.mem
                /\ meta' = Outdated(meta, id) @@ (c.ref :> FreshMeta("store"))
                /\ devices' = devices @@ (id :> c.ref)
                /\ stored' = stored @@ (id :> DeviceValue(heap[device], mem))
                /\ oks' = oks @@ (id :> <<>>)
                /\ loc' = loc
        /\ rw' = Unlock(rw)
        /\ pc' = [pc EXCEPT ![t] = "repo_ret"]
        /\ known' = known

\* InMemoryDeviceRepository.Create, lock held
RepoCreate(t) ==
    LET device == loc[t].dev
        fail == \/ device = 0
                \/ heap[device].ID = <<>>
                \/ heap[device].ID \in DOMAIN devices
        c == Clone(heap, mem, device)
        id == heap[device].ID
    IN  /\ pc[t] = "repo_cs"
        /\ loc[t].op = "Create"
        /\ IF fail
           THEN /\ loc' = [loc EXCEPT ![t].err = TRUE]
                /\ UNCHANGED <<heap, mem, meta, devices, stored, oks>>
           ELSE /\ heap' = c.heap
                /\ mem' = c.mem
                /\ meta' = Outdated(meta, id) @@ (c.ref :> FreshMeta("store"))
                /\ devices' = devices @@ (id :> c.ref)
                /\ stored' = stored @@ (id :> DeviceValue(heap[device], mem))
                /\ oks' = oks @@ (id :> <<>>)
                /\ loc' = loc
        /\ rw' = Unlock(rw)
        /\ pc' = [pc EXCEPT ![t] = "repo_ret"]
        /\ known' = known

\* a Get that takes the record out of the map
RepoGet_Takes(t) ==
    LET id == loc[t].id
        exists == id \in DOMAIN devices
        c == Clone(heap, mem, devices[id])
    IN  /\ pc[t] = "repo_cs"
        /\ loc[t].op = "Get"
        /\ IF ~exists
           THEN /\ loc' = [loc EXCEPT ![t].err = TRUE]
                /\ UNCHANGED <<heap, mem, meta, devices, stored, oks>>
           ELSE /\ heap' = c.heap
                /\ mem' = c.mem
                /\ meta' = meta @@ (c.ref :> FetchedMeta("get", id))
                /\ loc' = [loc EXCEPT ![t].outs = {c.ref},
                                      ![t].exp = {stored[id]},
                                      ![t].after = Mutated(id)]
                /\ devices' = [i \in DOMAIN devices \ {id} |-> devices[i]]
                /\ stored' = [i \in DOMAIN devices \ {id} |-> stored[i]]
                /\ oks' = [i \in DOMAIN devices \ {id} |-> oks[i]]
        /\ rw' = RUnlock(rw, t)
        /\ pc' = [pc EXCEPT ![t] = "repo_ret"]
        /\ known' = known

\* Get that unlocks by hand on the path that returns the clone and not on
\* the path that returns the error
RepoGet_KeepsLockOnError(t) ==
    LET id == loc[t].id
        exists == id \in DOMAIN devices
        c == Clone(heap, mem, devices[id])
    IN  /\ pc[t] = "repo_cs"
        /\ loc[t].op = "Get"
        /\ IF ~exists
           THEN /\ loc' = [loc EXCEPT ![t].err = TRUE]
                /\ rw' = rw
                /\ UNCHANGED <<heap, mem, meta>>
           ELSE /\ heap' = c.heap
                /\ mem' = c.mem
                /\ meta' = meta @@ (c.ref :> FetchedMeta("get", id))
                /\ rw' = RUnlock(rw, t)
                /\ loc' = [loc EXCEPT ![t].outs = {c.ref},
                                      ![t].exp = {stored[id]},
                                      ![t].after = Mutated(id)]
        /\ pc' = [pc EXCEPT ![t] = "repo_ret"]
        /\ UNCHANGED <<known, devices, stored, oks>>

\* InMemoryDeviceRepository.Get, read lock held
RepoGet(t) ==
    LET id == loc[t].id
        exists == id \in DOMAIN devices
        c == Clone(heap, mem, devices[id])
    IN  /\ pc[t] = "repo_cs"
        /\ loc[t].op = "Get"
        /\ IF ~exists
           THEN /\ loc' = [loc EXCEPT ![t].err = TRUE]
                /\ UNCHANGED <<heap, mem, meta>>
           ELSE /\ heap' = c.heap
                /\ mem' = c.mem
                /\ meta' = meta @@ (c.ref :> FetchedMeta("get", id))
                /\ loc' = [loc EXCEPT ![t].outs = {c.ref},
                                      ![t].exp = {stored[id]},
                                      ![t].after = Mutated(id)]
        /\ rw' = RUnlock(rw, t)
        /\ pc' = [pc EXCEPT ![t] = "repo_ret"]
        /\ UNCHANGED <<known, devices, stored, oks>>

\* the loop of List: a Clone of every record in ids, appended to the slice
RECURSIVE CloneAll(_, _, _, _)
CloneAll(h, m, dv, ids) ==
    IF ids = {} THEN [heap |-> h, mem |-> m, refs |-> <<>>]
    ELSE LET id == CHOOSE i \in ids : TRUE
             c == Clone(h, m, dv[id])
             rest == CloneAll(c.heap, c.mem, dv, ids \ {id})
         IN  [heap |-> rest.heap, mem |-> rest.mem, refs |-> (id :> c.ref) @@ rest.refs]

\* InMemoryDeviceRepository.List, read lock held; the order of the slice is
\* that of the map iteration and is not kept
RepoList(t) ==
    LET all == CloneAll(heap, mem, devices, DOMAIN devices)
    IN  /\ pc[t] = "repo_cs"
        /\ loc[t].op = "List"
        /\ heap' = all.heap
        /\ mem' = all.mem
        /\ meta' = meta @@ [r \in {all.refs[i] : i \in DOMAIN all.refs} |->
                       FetchedMeta("list", CHOOSE i \in DOMAIN all.refs : all.refs[i] = r)]
        /\ loc' = [loc EXCEPT ![t].outs = {all.refs[i] : i \in DOMAIN all.refs},
                              ![t].exp = {stored[i] : i \in DOMAIN devices},
                              ![t].after = \E i \in DOMAIN devices : Mutated(i)]
        /\ rw' = RUnlock(rw, t)
        /\ pc' = [pc EXCEPT ![t] = "repo_ret"]
        /\ UNCHANGED <<known, devices, stored, oks>>

\* Update that keeps the counter of the record it replaces
RepoUpdate_KeepsCounter(t) ==
    LET device == loc[t].dev
        fail == \/ device = 0
                \/ heap[device].ID = <<>>
                \/ heap[device].ID \notin DOMAIN devices
        c == Clone(heap, mem, device)
        id == heap[device].ID
        dv == [devices EXCEPT ![id] = c.ref]
        h == [c.heap EXCEPT ![c.ref].SignatureCounter = heap[devices[id]].SignatureCounter]
        g == Sweep(h, c.mem, Outdated(meta, id) @@ (c.ref :> FreshMeta("store")),
                   Roots(known, dv, loc))
    IN  /\ pc[t] = "repo_cs"
        /\ loc[t].op = "Update"
        /\ IF fail
           THEN /\ loc' = [loc EXCEPT ![t].err = TRUE]
                /\ UNCHANGED <<heap, mem, meta, devices, stored>>
           ELSE /\ heap' = g.heap
                /\ mem' = g.mem
                /\ meta' = g.meta
                /\ devices' = dv
                /\ stored' = [stored EXCEPT ![id] = DeviceValue(heap[device], mem)]
                /\ loc' = loc
        /\ rw' = Unlock(rw)
        /\ pc' = [pc EXCEPT ![t] = "repo_ret"]
        /\ UNCHANGED <<known, oks>>

\* Update that stores the device when no record has its id
RepoUpdate_Upserts(t) ==
    LET device == loc[t].dev
        fail == \/ device = 0
                \/ heap[device].ID = <<>>
        c == Clone(heap, mem, device)
        id == heap[device].ID
        dv == (id :> c.ref) @@ devices
        g == Sweep(c.heap, c.mem, Outdated(meta, id) @@ (c.ref :> FreshMeta("store")),
                   Roots(known, dv, loc))
    IN  /\ pc[t] = "repo_cs"
        /\ loc[t].op = "Update"
        /\ IF fail
           THEN /\ loc' = [loc EXCEPT ![t].err = TRUE]
                /\ UNCHANGED <<heap, mem, meta, devices, stored, oks>>
           ELSE /\ heap' = g.heap
                /\ mem' = g.mem
                /\ meta' = g.meta
                /\ devices' = dv
                /\ stored' = (id :> DeviceValue(heap[device], mem)) @@ stored
                /\ oks' = oks @@ (id :> <<>>)
                /\ loc' = loc
        /\ rw' = Unlock(rw)
        /\ pc' = [pc EXCEPT ![t] = "repo_ret"]
        /\ known' = known

\* InMemoryDeviceRepository.Update, lock held; the record replaced is garbage
RepoUpdate(t) ==
    LET device == loc[t].dev
        fail == \/ device = 0
                \/ heap[device].ID = <<>>
                \/ heap[device].ID \notin DOMAIN devices
        id == heap[device].ID
    IN  /\ pc[t] = "repo_cs"
        /\ loc[t].op = "Update"
        /\ IF fail
           THEN /\ loc' = [loc EXCEPT ![t].err = TRUE]
                /\ UNCHANGED <<heap, mem, meta, devices, stored>>
           ELSE \E c \in {Clone(heap, mem, device)} :
                  \E dv \in {[devices EXCEPT ![id] = c.ref]} :
                    \E g \in {Sweep(c.heap, c.mem,
                                     Outdated(meta, id) @@ (c.ref :> FreshMeta("store")),
                                     Roots(known, dv, loc))} :
                        /\ heap' = g.heap
                        /\ mem' = g.mem
                        /\ meta' = g.meta
                        /\ devices' = dv
                        /\ stored' = [stored EXCEPT ![id] = DeviceValue(heap[device], mem)]
                        /\ loc' = loc
        /\ rw' = Unlock(rw)
        /\ pc' = [pc EXCEPT ![t] = "repo_ret"]
        /\ UNCHANGED <<known, oks>>

\* Delete that empties the map
RepoDelete_Clears(t) ==
    LET id == loc[t].id
        dv == [i \in {} |-> 0]
        g == Sweep(heap, mem, [r \in DOMAIN meta |-> [meta[r] EXCEPT !.stale = TRUE]],
                   Roots(known, dv, loc))
    IN  /\ pc[t] = "repo_cs"
        /\ loc[t].op = "Delete"
        /\ IF id \notin DOMAIN devices
           THEN /\ loc' = [loc EXCEPT ![t].err = TRUE]
                /\ UNCHANGED <<heap, mem, meta, devices, stored, oks>>
           ELSE /\ heap' = g.heap
                /\ mem' = g.mem
                /\ meta' = g.meta
                /\ devices' = dv
                /\ stored' = [i \in DOMAIN dv |-> stored[i]]
                /\ oks' = [i \in DOMAIN dv |-> oks[i]]
                /\ loc' = loc
        /\ rw' = Unlock(rw)
        /\ pc' = [pc EXCEPT ![t] = "repo_ret"]
        /\ known' = known

\* InMemoryDeviceRepository.Delete, lock held
RepoDelete(t) ==
    LET id == loc[t].id
        dv == [i \in DOMAIN devices \ {id} |-> devices[i]]
        g == Sweep(heap, mem, Removed(meta, id), Roots(known, dv, loc))
    IN  /\ pc[t] = "repo_cs"
        /\ loc[t].op = "Delete"
        /\ IF id \notin DOMAIN devices
           THEN /\ loc' = [loc EXCEPT ![t].err = TRUE]
                /\ UNCHANGED <<heap, mem, meta, devices, stored, oks>>
           ELSE /\ heap' = g.heap
                /\ mem' = g.mem
                /\ meta' = g.meta
                /\ devices' = dv
                /\ stored' = [i \in DOMAIN dv |-> stored[i]]
                /\ oks' = [i \in DOMAIN dv |-> oks[i]]
                /\ loc' = loc
        /\ rw' = Unlock(rw)
        /\ pc' = [pc EXCEPT ![t] = "repo_ret"]
        /\ known' = known

\* the repository call returns to client code, which keeps the devices it was
\* given or lets them go
ClientReturn(t) ==
    /\ pc[t] = "repo_ret"
    /\ loc[t].ret = "client"
    /\ \E keep \in SUBSET loc[t].outs :
          LET lc == [loc EXCEPT ![t] = IdleLoc]
              g == Sweep(heap, mem, meta, Roots(known \cup keep, devices, lc))
          IN  /\ Cardinality({o \in known \cup keep : meta[o].from # "new"}) <= MaxObj
              /\ known' = known \cup keep
              /\ loc' = lc
              /\ heap' = g.heap
              /\ mem' = g.mem
              /\ meta' = g.meta
    /\ pc' = [pc EXCEPT ![t] = "idle"]
    /\ UNCHANGED storeVars

----------------------------------------------------------------------------
(* api: DeviceHandler *)

\* the ids that stand for UUID texts: uuid.Parse accepts them and uuid.New
\* returns one of them
UUIDs == {<<"d", "1">>}

\* domain.ValidateID
ValidateID(id) == IF id = <<>> THEN FALSE ELSE id \in UUIDs

\* strings.ToUpper on the algorithm names requests carry
ToUpper(a) ==
    CASE a = "rsa" -> "RSA"
      [] a = "ecc" -> "ECC"
      [] a = "dsa" -> "DSA"
      [] OTHER -> a

\* the sign requests for id that are being handled
SignRequests(id) == {t \in Threads : loc[t].ret = "hsign" /\ loc[t].id = id}

\* the requests made that count: the sign requests for id answered with
\* success or being handled, and the get and list requests
Requests(id) == Len(oks[id]) + Cardinality(SignRequests(id)) + calls

\* the handler is done: WriteErrorResponse(status), or WriteAPIResponse with
\* the signature and signed data of a sign request; its locals are dead
Respond(lc, t, status) ==
    [lc EXCEPT ![t] = [IdleLoc EXCEPT !.op = "Respond", !.ret = lc[t].ret, !.id = lc[t].id,
                                      !.status = status,
                                      !.signature = IF status = 200 THEN lc[t].signature ELSE <<>>,
                                      !.securedData = IF status = 200 THEN lc[t].securedData
                                                      ELSE <<>>]]

\* a projection that carries the private key in place of the public key
CreateDeviceResponse_PrivateKey(d, m) ==
    [id |-> d.ID, label |-> d.Label, algorithm |-> d.Algorithm,
     signature_counter |-> d.SignatureCounter, public_key |-> Bytes(m, d.PrivateKey)]

\* the CreateDeviceResponse literal of CreateDevice, GetDevice and
\* ListDevices: five fields of the device, the key bytes read out
CreateDeviceResponse(d, m) ==
    [id |-> d.ID, label |-> d.Label, algorithm |-> d.Algorithm,
     signature_counter |-> d.SignatureCounter, public_key |-> Bytes(m, d.PublicKey)]

\* WriteAPIResponse(status, body) with device projections
RespondWith(lc, t, status, body) == [Respond(lc, t, status) EXCEPT ![t].body = body]

\* the handler's step to lc, the garbage it leaves collected
HandlerStep(lc, h) ==
    LET g == Sweep(h, mem, meta, Roots(known, devices, lc))
    IN  /\ loc' = lc
        /\ heap' = g.heap
        /\ mem' = g.mem
        /\ meta' = g.meta

\* DeviceHandler.CreateDevice up to the call of repository.Create; bad: the
\* request body is no JSON object
HCreate(t, id, algorithm, label, bad) ==
    LET alg == ToUpper(algorithm)
        start == [IdleLoc EXCEPT !.op = "CreateDevice", !.ret = "hcreate"]
    IN  /\ pc[t] = "idle"
        /\ IF bad
           THEN /\ loc' = [loc EXCEPT ![t] = [start EXCEPT !.status = 400]]
                /\ pc' = [pc EXCEPT ![t] = "h_done"]
                /\ UNCHANGED <<heap, mem, meta>>
           ELSE \E rid \in (IF id = <<>> THEN UUIDs \ DOMAIN devices ELSE {id}) :
                  IF id # <<>> /\ ~ValidateID(id)
                  THEN /\ loc' = [loc EXCEPT ![t] = [start EXCEPT !.status = 400]]
                       /\ pc' = [pc EXCEPT ![t] = "h_done"]
                       /\ UNCHANGED <<heap, mem, meta>>
                  ELSE IF alg # "RSA" /\ alg # "ECC"
                  THEN /\ loc' = [loc EXCEPT ![t] = [start EXCEPT !.status = 400]]
                       /\ pc' = [pc EXCEPT ![t] = "h_done"]
                       /\ UNCHANGED <<heap, mem, meta>>
                  ELSE \E gen \in Generate(alg, mem) :
                         LET r == NewSignatureDevice(rid, alg, label, gen)
                             a == AllocDevice(heap, mem, r.value)
                         IN  IF r.err
                             THEN /\ loc' = [loc EXCEPT ![t] = [start EXCEPT !.status = 500]]
                                  /\ pc' = [pc EXCEPT ![t] = "h_done"]
                                  /\ UNCHANGED <<heap, mem, meta>>
                             ELSE /\ heap' = a.heap
                                  /\ mem' = a.mem
                                  /\ meta' = meta @@ (a.ref :> FreshMeta("new"))
                                  /\ loc' = [loc EXCEPT ![t] =
                                                [start EXCEPT !.op = "Create", !.dev = a.ref,
                                                              !.id = rid]]
                                  /\ pc' = [pc EXCEPT ![t] = "repo_lock"]
        /\ UNCHANGED <<known, storeVars>>

\* CreateDevice after repository.Create returned
HCreateStored(t) ==
    /\ pc[t] = "repo_ret"
    /\ loc[t].ret = "hcreate"
    /\ IF loc[t].err
       THEN HandlerStep(Respond(loc, t, 500), heap)
       ELSE HandlerStep(RespondWith(loc, t, 201,
                                    {CreateDeviceResponse(heap[loc[t].dev], mem)}), heap)
    /\ pc' = [pc EXCEPT ![t] = "h_done"]
    /\ UNCHANGED <<known, storeVars>>

\* DeviceHandler.SignTransaction up to the call of repository.Get; bad: the
\* request body is no JSON object
HSign(t, id, data, bad) ==
    /\ pc[t] = "idle"
    /\ id \in DOMAIN oks => Requests(id) < MaxRequests
    /\ pc' = [pc EXCEPT ![t] = "repo_lock"]
    /\ loc' = [loc EXCEPT ![t] = [IdleLoc EXCEPT !.op = "Get", !.id = id, !.data = data,
                                                 !.bad = bad, !.ret = "hsign"]]
    /\ UNCHANGED <<heap, mem, known, meta, storeVars>>

\* a handler that answers 500 when the device is not found
HSignFetched_ServerError(t) ==
    /\ pc[t] = "repo_ret"
    /\ loc[t].ret = "hsign"
    /\ loc[t].op = "Get"
    /\ IF loc[t].err
       THEN /\ HandlerStep(Respond(loc, t, 500), heap)
            /\ pc' = [pc EXCEPT ![t] = "h_done"]
       ELSE IF loc[t].bad
       THEN /\ HandlerStep(Respond(loc, t, 400), heap)
            /\ pc' = [pc EXCEPT ![t] = "h_done"]
       ELSE /\ loc' = [loc EXCEPT ![t].op = "Sign",
                                  ![t].dev = CHOOSE r \in loc[t].outs : TRUE,
                                  ![t].outs = {}, ![t].exp = {}, ![t].after = FALSE]
            /\ pc' = [pc EXCEPT ![t] = "sign_lock"]
            /\ UNCHANGED <<heap, mem, meta>>
    /\ UNCHANGED <<known, storeVars>>

\* SignTransaction after repository.Get returned: not found, a body that
\* does not decode, or the call of device.SignTransaction
HSignFetched(t) ==
    /\ pc[t] = "repo_ret"
    /\ loc[t].ret = "hsign"
    /\ loc[t].op = "Get"
    /\ IF loc[t].err
       THEN /\ HandlerStep(Respond(loc, t, 404), heap)
            /\ pc' = [pc EXCEPT ![t] = "h_done"]
       ELSE IF loc[t].bad
       THEN /\ HandlerStep(Respond(loc, t, 400), heap)
            /\ pc' = [pc EXCEPT ![t] = "h_done"]
       ELSE /\ loc' = [loc EXCEPT ![t].op = "Sign",
                                  ![t].dev = CHOOSE r \in loc[t].outs : TRUE,
                                  ![t].outs = {}, ![t].exp = {}, ![t].after = FALSE]
            /\ pc' = [pc EXCEPT ![t] = "sign_lock"]
            /\ UNCHANGED <<heap, mem, meta>>
    /\ UNCHANGED <<known, storeVars>>

\* a handler that calls repository.Update whether or not signing succeeded
HSignSigned_AlwaysUpdates(t) ==
    LET r == loc[t].dev
    IN  /\ pc[t] = "sign_unlock"
        /\ loc[t].ret = "hsign"
        /\ heap' = [heap EXCEPT ![r].mu = 0]
        /\ loc' = [loc EXCEPT ![t].op = "Update", ![t].pre = NoChain]
        /\ pc' = [pc EXCEPT ![t] = "repo_lock"]
        /\ UNCHANGED <<mem, meta>>
        /\ UNCHANGED <<known, storeVars>>

\* the deferred d.mu.Unlock(), then SignTransaction of the handler goes on:
\* a signing error, or the call of repository.Update
HSignSigned(t) ==
    LET r == loc[t].dev
    IN  /\ pc[t] = "sign_unlock"
        /\ loc[t].ret = "hsign"
        /\ IF loc[t].err
           THEN /\ HandlerStep(Respond(loc, t, 500), [heap EXCEPT ![r].mu = 0])
                /\ pc' = [pc EXCEPT ![t] = "h_done"]
           ELSE /\ heap' = [heap EXCEPT ![r].mu = 0]
                /\ loc' = [loc EXCEPT ![t].op = "Update", ![t].pre = NoChain]
                /\ pc' = [pc EXCEPT ![t] = "repo_lock"]
                /\ UNCHANGED <<mem, meta>>
        /\ UNCHANGED <<known, storeVars>>

\* SignTransaction after repository.Update returned
HSignStored(t) ==
    /\ pc[t] = "repo_ret"
    /\ loc[t].ret = "hsign"
    /\ loc[t].op = "Update"
    /\ IF loc[t].err
       THEN /\ HandlerStep(Respond(loc, t, 500), heap)
            /\ oks' = oks
       ELSE /\ HandlerStep(Respond(loc, t, 200), heap)
            /\ oks' = IF loc[t].id \in DOMAIN oks
                      THEN [oks EXCEPT ![loc[t].id] = Append(@, loc[t].securedData)]
                      ELSE oks
    /\ pc' = [pc EXCEPT ![t] = "h_done"]
    /\ UNCHANGED <<known, devices, rw, stored>>

\* DeviceHandler.GetDevice up to the call of repository.Get
HGet(t, id) ==
    /\ pc[t] = "idle"
    /\ calls < MaxReads
    /\ \A i \in DOMAIN oks : Requests(i) < MaxRequests
    /\ calls' = calls + 1
    /\ pc' = [pc EXCEPT ![t] = "repo_lock"]
    /\ loc' = [loc EXCEPT ![t] = [IdleLoc EXCEPT !.op = "Get", !.id = id, !.ret = "hget"]]
    /\ UNCHANGED <<heap, mem, known, meta, storeVars>>

\* GetDevice after repository.Get returned
HGetFetched(t) ==
    /\ pc[t] = "repo_ret"
    /\ loc[t].ret = "hget"
    /\ IF loc[t].err
       THEN HandlerStep(Respond(loc, t, 404), heap)
       ELSE HandlerStep(RespondWith(loc, t, 200,
                {CreateDeviceResponse(heap[o], mem) : o \in loc[t].outs}), heap)
    /\ pc' = [pc EXCEPT ![t] = "h_done"]
    /\ UNCHANGED <<known, storeVars>>

\* DeviceHandler.ListDevices up to the call of repository.List
HList(t) ==
    /\ pc[t] = "idle"
    /\ calls < MaxReads
    /\ \A i \in DOMAIN oks : Requests(i) < MaxRequests
    /\ calls' = calls + 1
    /\ pc' = [pc EXCEPT ![t] = "repo_lock"]
    /\ loc' = [loc EXCEPT ![t] = [IdleLoc EXCEPT !.op = "List", !.ret = "hlist"]]
    /\ UNCHANGED <<heap, mem, known, meta, storeVars>>

\* ListDevices after repository.List returned: List returns no error
HListFetched(t) ==
    /\ pc[t] = "repo_ret"
    /\ loc[t].ret = "hlist"
    /\ IF loc[t].err
       THEN HandlerStep(Respond(loc, t, 500), heap)
       ELSE HandlerStep(RespondWith(loc, t, 200,
                {CreateDeviceResponse(heap[o], mem) : o \in loc[t].outs}), heap)
    /\ pc' = [pc EXCEPT ![t] = "h_done"]
    /\ UNCHANGED <<known, storeVars>>

\* the response is written and the handler returns
HDone(t) ==
    /\ pc[t] = "h_done"
    /\ loc' = [loc EXCEPT ![t] = IdleLoc]
    /\ pc' = [pc EXCEPT ![t] = "idle"]
    /\ UNCHANGED <<heap, mem, known, meta, storeVars>>


----------------------------------------------------------------------------
(* domain: ParseSecuredData *)

ParseResult(err, counter, data, lastSignature) ==
    [err |-> err, counter |-> counter, data |-> data, lastSignature |-> lastSignature]

ParseError == ParseResult(TRUE, 0, <<>>, <<>>)

\* a slip in the part count: two parts are let through
ParseSecuredData_TwoParts(securedData) ==
    LET parts == SplitN(securedData, "_", 3)
        third == IF Len(parts) >= 3 THEN parts[3] ELSE <<>>
    IN  IF Len(parts) < 2 THEN ParseError
        ELSE IF Atoi(parts[1]).err THEN ParseError
        ELSE ParseResult(FALSE, Atoi(parts[1]).val, parts[2], third)

ParseSecuredData(securedData) ==
    LET parts == SplitN(securedData, "_", 3)
    IN  IF Len(parts) # 3 THEN ParseError
        ELSE IF Atoi(parts[1]).err THEN ParseError
        ELSE ParseResult(FALSE, Atoi(parts[1]).val, parts[2], parts[3])

----------------------------------------------------------------------------
(* Callers of ParseSecuredData *)

NoRes == [err |-> TRUE, counter |-> -1, data |-> <<>>, lastSignature |-> <<>>]
NoComp == [counter |-> -1, data |-> <<>>, lastSignature |-> <<>>]

ParseAlphabet == {"0", "1", "-", "+", "a", "_"}
ParseInputs == StrUpTo(ParseAlphabet, MaxLen)

\* the fields the chaining protocol composes: any raw data, a base64 text
RawDataSet == StrUpTo({"a", "_"}, 3)
LastSigSet == {<<"Z", "A", "=", "=">>, <<"A", "Q", "=", "=">>, <<>>}

\* the caller's argument: any text, or a securedData composed the way
\* SignTransaction composes it
ParseInit ==
    /\ DevInit
    /\ newres = NoNew
    /\ pres = NoRes
    /\ codec = NoCodec
    /\ \/ /\ pin \in ParseInputs
          /\ pcomp = NoComp
       \/ \E c \in 0..MaxCounter, d \in RawDataSet, l \in LastSigSet :
              /\ pin = Sprintf_d_s_s(c, d, l)
              /\ pcomp = [counter |-> c, data |-> d, lastSignature |-> l]

CallParse ==
    /\ pres = NoRes
    /\ pres' = ParseSecuredData(pin)
    /\ UNCHANGED <<pin, pcomp, newres, codec>>
    /\ UNCHANGED <<devVars, storeVars, calls>>

NextParse == CallParse

SpecParse == ParseInit /\ [][NextParse]_vars

ParseIdle ==
    /\ pin = <<>>
    /\ pcomp = NoComp
    /\ pres = NoRes
    /\ codec = NoCodec

InitDevice == DevInit /\ ParseIdle /\ newres = NoNew

SpecDevice == InitDevice /\ [][NextDevice]_vars

----------------------------------------------------------------------------
(* Callers of the key codec *)

MaxKeys == 2

\* byte slices a caller can hand to Unmarshal: nil, text that is no PEM block,
\* and PEM blocks of every tag around every DER structure or around bytes
\* that are no DER
BlockTypes == {"PRIVATE_KEY", "PUBLIC_KEY", "RSA_PRIVATE_KEY", "RSA_PUBLIC_KEY"}
DerKinds == {"SEC1-EC", "PKIX-EC", "PKCS1", "PKCS1-PUB", "garbage"}
KeyBlocks ==
    {NilBytes, Garbage}
        \cup {PEM(type, der, key) : type \in BlockTypes, der \in DerKinds, key \in 1..MaxKeys}

\* the caller has a generated key pair to marshal, or bytes to unmarshal
CodecInit ==
    /\ DevInit
    /\ newres = NoNew
    /\ pin = <<>>
    /\ pcomp = NoComp
    /\ pres = NoRes
    /\ \E a \in Algorithms :
          \/ \E key \in 1..MaxKeys :
                codec = [NoCodec EXCEPT !.step = "generated", !.algorithm = a, !.key = key]
          \/ \E b \in KeyBlocks :
                codec = [NoCodec EXCEPT !.step = "encoded", !.algorithm = a, !.block = b]

\* marshaler.Marshal(keyPair)
CodecMarshal ==
    /\ codec.step = "generated"
    /\ codec' = [codec EXCEPT !.step = "encoded",
                              !.kp = Marshal(codec.algorithm, codec.key),
                              !.block = Marshal(codec.algorithm, codec.key).private]

\* marshaler.Unmarshal(privateKeyBytes)
CodecUnmarshal ==
    /\ codec.step = "encoded"
    /\ codec' = [codec EXCEPT !.step = "decoded",
                              !.res = Unmarshal(codec.algorithm, codec.block)]

\* marshaler.Marshal of the key pair Unmarshal returned
CodecMarshalAgain ==
    /\ codec.step = "decoded"
    /\ ~codec.res.err
    /\ codec' = [codec EXCEPT !.step = "encoded again",
                              !.again = Marshal(codec.algorithm, codec.res.key)]

NextCodec ==
    \/ CodecMarshal /\ UNCHANGED <<devVars, storeVars, calls, newres, pin, pcomp, pres>>
    \/ CodecUnmarshal /\ UNCHANGED <<devVars, storeVars, calls, newres, pin, pcomp, pres>>
    \/ CodecMarshalAgain /\ UNCHANGED <<devVars, storeVars, calls, newres, pin, pcomp, pres>>

SpecCodec == CodecInit /\ [][NextCodec]_vars

----------------------------------------------------------------------------
(* The specifications of the repository and of the service *)

\* the fields client code writes on the devices it holds
StoreWrites ==
    {"ID", "Label", "Algorithm", "SignatureCounter", "LastSignature", "PublicKey", "PrivateKey"}

\* no call is running / no SignTransaction call is running
Quiet == \A t \in Threads : pc[t] = "idle"
NoSigning == \A t \in Threads : loc[t].op # "Sign"

\* client goroutines that make devices, call the repository with them, sign
\* with them and write their fields; the repository calls of the goroutines
\* run together, a SignTransaction call runs between them
NextStore ==
    \/ \E a \in {"ECC"} : ClientNew(<<"d", "1">>, a, "L") /\ DevFrame
    \/ \E t \in Threads, op \in {"Create", "Update"}, r \in known \cup {0} :
          NoSigning /\ RepoCall(t, op, r, <<>>) /\ CallFrame
    \/ \E t \in Threads, op \in {"Get", "Delete"}, id \in IdSet :
          NoSigning /\ RepoCall(t, op, 0, id) /\ CallFrame
    \/ \E t \in Threads : NoSigning /\ RepoCall(t, "List", 0, <<>>) /\ CallFrame
    \/ \E t \in Threads : RepoLock(t) /\ AuxFrame
    \/ \E t \in Threads : RepoCreate(t) /\ AuxFrame
    \/ \E t \in Threads : RepoGet(t) /\ AuxFrame
    \/ \E t \in Threads : RepoList(t) /\ AuxFrame
    \/ \E t \in Threads : RepoUpdate(t) /\ AuxFrame
    \/ \E t \in Threads : RepoDelete(t) /\ AuxFrame
    \/ \E t \in Threads : ClientReturn(t) /\ AuxFrame
    \/ \E r \in Refs : Tamper(r, StoreWrites) /\ DevFrame
    \/ \E t \in Threads, r \in Refs : Quiet /\ SignCall(t, r, <<"h">>) /\ DevFrame
    \/ \E t \in Threads : SignLock(t) /\ DevFrame
    \/ \E t \in Threads : SignCompose(t) /\ DevFrame
    \/ \E t \in Threads : SignCommit(t) /\ DevFrame
    \/ \E t \in Threads : SignUnlock(t) /\ DevFrame

SpecStore == InitDevice /\ [][NextStore]_vars

\* what create and sign requests carry
RequestIds == {<<>>, <<"d", "1">>, <<"x">>}
RequestAlgorithms == {"ECC", "rsa", "DSA"}
RequestData == {<<"h">>}

\* the service: goroutines that handle create, sign, get and list requests
Next ==
    \/ \E t \in Threads, id \in RequestIds, a \in RequestAlgorithms, bad \in BOOLEAN :
          HCreate(t, id, a, "L", bad) /\ AuxFrame
    \/ \E t \in Threads : HCreateStored(t) /\ AuxFrame
    \/ \E t \in Threads, id \in IdSet, data \in RequestData, bad \in BOOLEAN :
          HSign(t, id, data, bad) /\ AuxFrame
    \/ \E t \in Threads : HSignFetched(t) /\ AuxFrame
    \/ \E t \in Threads : HSignSigned(t) /\ DevFrame
    \/ \E t \in Threads : HSignStored(t) /\ AuxFrame
    \/ \E t \in Threads, id \in RequestIds : HGet(t, id) /\ CallFrame
    \/ \E t \in Threads : HGetFetched(t) /\ AuxFrame
    \/ \E t \in Threads : HList(t) /\ CallFrame
    \/ \E t \in Threads : HListFetched(t) /\ AuxFrame
    \/ \E t \in Threads : HDone(t) /\ AuxFrame
    \/ \E t \in Threads : RepoLock(t) /\ AuxFrame
    \/ \E t \in Threads : RepoCreate(t) /\ AuxFrame
    \/ \E t \in Threads : RepoGet(t) /\ AuxFrame
    \/ \E t \in Threads : RepoList(t) /\ AuxFrame
    \/ \E t \in Threads : RepoUpdate(t) /\ AuxFrame
    \/ \E t \in Threads : SignLock(t) /\ DevFrame
    \/ \E t \in Threads : SignCompose(t) /\ DevFrame
    \/ \E t \in Threads : SignCommit(t) /\ DevFrame

Spec == InitDevice /\ [][Next]_vars

----------------------------------------------------------------------------
(* NewSignatureDevice on its own *)

NewIds == {<<>>, <<"d", "1">>, <<"d", "2">>, <<"x">>, <<"a", "b">>}
NewAlgorithms == {"RSA", "ECC", "DSA", "INVALID", ""}
NewLabels == {"L", "M", ""}

InitNew ==
    /\ DevInit
    /\ ParseIdle
    /\ \E id \in NewIds, a \in NewAlgorithms, l \in NewLabels :
          newres = [NoNew EXCEPT !.id = id, !.algorithm = a, !.label = l]

CallNew ==
    /\ ~newres.called
    /\ \E gen \in Generate(newres.algorithm, mem) :
          LET r == NewSignatureDevice(newres.id, newres.algorithm, newres.label, gen)
          IN  newres' = [newres EXCEPT !.called = TRUE, !.err = r.err, !.value = r.value]
    /\ UNCHANGED <<devVars, storeVars, calls, parseVars>>

\* NewSignatureDevice is called with the inputs, and create requests carry
\* them
NextNew ==
    \/ CallNew
    \/ \E t \in Threads :
          HCreate(t, newres.id, newres.algorithm, newres.label, FALSE) /\ AuxFrame
    \/ \E t \in Threads : RepoLock(t) /\ AuxFrame
    \/ \E t \in Threads : RepoCreate(t) /\ AuxFrame
    \/ \E t \in Threads : HCreateStored(t) /\ AuxFrame
    \/ \E t \in Threads : HDone(t) /\ AuxFrame

SpecNew == InitNew /\ [][NextNew]_vars

----------------------------------------------------------------------------
(* SignTransaction on two devices *)

\* client code has made two devices, of any algorithms
InitPair ==
    /\ \E a, b \in Algorithms :
          \E ga \in Generate(a, <<>>) :
              LET na == NewSignatureDevice(<<"d", "1">>, a, "L", ga)
                  x == AllocDevice(<<>>, <<>>, na.value)
              IN  \E gb \in Generate(b, x.mem) :
                      LET nb == NewSignatureDevice(<<"d", "2">>, b, "L", gb)
                          y == AllocDevice(x.heap, x.mem, nb.value)
                      IN  /\ ~na.err /\ ~nb.err
                          /\ heap = y.heap
                          /\ mem = y.mem
                          /\ known = {x.ref, y.ref}
                          /\ meta = [r \in {x.ref, y.ref} |-> FreshMeta("new")]
    /\ pc = [t \in Threads |-> "idle"]
    /\ loc = [t \in Threads |-> IdleLoc]
    /\ devices = <<>>
    /\ rw = [writer |-> 0, readers |-> {}]
    /\ stored = <<>>
    /\ oks = <<>>
    /\ calls = 0
    /\ ParseIdle
    /\ newres = NoNew

\* goroutines sign with the two devices; client code writes their fields
\* between calls
NextPair ==
    \/ \E t \in Threads, r \in Refs, data \in DataSet : SignCall(t, r, data) /\ DevFrame
    \/ \E t \in Threads : SignLock(t) /\ DevFrame
    \/ \E t \in Threads : SignCompose(t) /\ DevFrame
    \/ \E t \in Threads : SignCommit(t) /\ DevFrame
    \/ \E t \in Threads : SignUnlock(t) /\ DevFrame
    \/ \E r \in Refs : Tamper(r, {"Algorithm", "SignatureCounter", "PrivateKey"}) /\ DevFrame

SpecPair == InitPair /\ [][NextPair]_vars

----------------------------------------------------------------------------
(* Create calls of goroutines that run together *)

\* the devices client code made (the others it holds are copies List gave it)
Made == {r \in known : meta[r].from = "new"}

\* the devices client code has passed to no Create yet
NotPassed == {r \in Made : heap[r].ID \notin DOMAIN devices /\ Using(r) = {}}

\* every device client code made has been passed to Create and the calls
\* have returned
AllCreated == calls >= Cardinality(Made) /\ \A t \in Threads : pc[t] = "idle"

\* goroutines call Create, each with a device of its own id; when all the
\* calls have returned a goroutine calls List
NextCreates ==
    \/ \E t \in Threads, r \in NotPassed : RepoCall(t, "Create", r, <<>>) /\ CallFrame
    \/ \E t \in Threads : AllCreated /\ RepoCall(t, "List", 0, <<>>) /\ CallFrame
    \/ \E t \in Threads : RepoLock(t) /\ AuxFrame
    \/ \E t \in Threads : RepoCreate(t) /\ AuxFrame
    \/ \E t \in Threads : RepoList(t) /\ AuxFrame
    \/ \E t \in Threads : ClientReturn(t) /\ AuxFrame

SpecCreates == InitPair /\ [][NextCreates]_vars

----------------------------------------------------------------------------
(* Sign requests on a repository that client code writes too *)

\* the handler serves sign requests for one id from a repository that client
\* code fills with a device it made, has written the algorithm or the private
\* key of, and deletes from; the record a sign request fetched can be one
\* no signer is made for, and can be gone when the request calls Update
NextSignPath ==
    \/ ClientNew(<<"d", "1">>, "ECC", "L") /\ DevFrame
    \/ \E r \in Refs : Tamper(r, {"Algorithm", "PrivateKey"}) /\ DevFrame
    \/ \E t \in Threads, r \in known : RepoCall(t, "Create", r, <<>>) /\ CallFrame
    \/ \E t \in Threads : RepoCall(t, "Delete", 0, <<"d", "1">>) /\ CallFrame
    \/ \E t \in Threads : ClientReturn(t) /\ AuxFrame
    \/ \E t \in Threads, data \in RequestData : HSign(t, <<"d", "1">>, data, FALSE) /\ AuxFrame
    \/ \E t \in Threads : HSignFetched(t) /\ AuxFrame
    \/ \E t \in Threads : HSignSigned(t) /\ DevFrame
    \/ \E t \in Threads : HSignStored(t) /\ AuxFrame
    \/ \E t \in Threads : HDone(t) /\ AuxFrame
    \/ \E t \in Threads : RepoLock(t) /\ AuxFrame
    \/ \E t \in Threads : RepoCreate(t) /\ AuxFrame
    \/ \E t \in Threads : RepoGet(t) /\ AuxFrame
    \/ \E t \in Threads : RepoUpdate(t) /\ AuxFrame
    \/ \E t \in Threads : RepoDelete(t) /\ AuxFrame
    \/ \E t \in Threads : SignLock(t) /\ DevFrame
    \/ \E t \in Threads : SignCompose(t) /\ DevFrame
    \/ \E t \in Threads : SignCommit(t) /\ DevFrame

SpecSignPath == InitDevice /\ [][NextSignPath]_vars

----------------------------------------------------------------------------
(* Create calls of goroutines that pass devices of one id *)

\* client code has made two devices of the same id, with labels of their own
InitTwins ==
    /\ \E a, b \in Algorithms :
          \E ga \in Generate(a, <<>>) :
              LET na == NewSignatureDevice(<<"d", "1">>, a, "L", ga)
                  x == AllocDevice(<<>>, <<>>, na.value)
              IN  \E gb \in Generate(b, x.mem) :
                      LET nb == NewSignatureDevice(<<"d", "1">>, b, "M", gb)
                          y == AllocDevice(x.heap, x.mem, nb.value)
                      IN  /\ ~na.err /\ ~nb.err
                          /\ heap = y.heap
                          /\ mem = y.mem
                          /\ known = {x.ref, y.ref}
                          /\ meta = [r \in {x.ref, y.ref} |-> FreshMeta("new")]
    /\ pc = [t \in Threads |-> "idle"]
    /\ loc = [t \in Threads |-> IdleLoc]
    /\ devices = <<>>
    /\ rw = [writer |-> 0, readers |-> {}]
    /\ stored = <<>>
    /\ oks = <<>>
    /\ calls = 0
    /\ ParseIdle
    /\ newres = NoNew

\* the devices no goroutine has passed to Create
Unused == {r \in Made : Using(r) = {}}

\* every device was passed to Create and every call has returned; the
\* goroutines hold the results until then
AllBack == calls = Cardinality(Made) /\ \A t \in Threads : pc[t] \in {"idle", "repo_ret"}

\* goroutines call Create, each with a device of its own, all of one id;
\* client code collects the results when all the calls have returned
NextTwins ==
    \/ \E t \in Threads, r \in Unused :
          calls < Cardinality(Made) /\ RepoCall(t, "Create", r, <<>>) /\ CallFrame
    \/ \E t \in Threads : RepoLock(t) /\ AuxFrame
    \/ \E t \in Threads : RepoCreate(t) /\ AuxFrame
    \/ \E t \in Threads : AllBack /\ ClientReturn(t) /\ AuxFrame

SpecTwins == InitTwins /\ [][NextTwins]_vars

----------------------------------------------------------------------------
(* Store operations, SignTransaction calls and sign requests under a fair
   scheduler *)

\* what client code starts in the fair specification
MaxStarts == 3

\* the writes, SignTransaction calls and repository calls client code has
\* made, and the sign requests answered 200
Started == WritesMade + SignsMade + calls + Total([i \in DOMAIN oks |-> Len(oks[i])], DOMAIN oks)

\* what client code starts: it makes a device, writes its private key,
\* signs with it, creates and deletes its record, and sends sign requests
Starts ==
    \/ ClientNew(<<"d", "1">>, "ECC", "L") /\ DevFrame
    \/ \E r \in Refs : Started < MaxStarts /\ Tamper(r, {"PrivateKey"}) /\ DevFrame
    \/ \E t \in Threads, r \in known :
          Started < MaxStarts /\ SignCall(t, r, <<"h">>) /\ DevFrame
    \/ \E t \in Threads, r \in known :
          Started < MaxStarts /\ RepoCall(t, "Create", r, <<>>) /\ CallFrame
    \/ \E t \in Threads :
          Started < MaxStarts /\ RepoCall(t, "Delete", 0, <<"d", "1">>) /\ CallFrame
    \/ \E t \in Threads :
          Started < MaxStarts /\ HSign(t, <<"d", "1">>, <<"h">>, FALSE) /\ AuxFrame

\* the goroutines that are in r.mu.Lock()
PendingWriters == {u \in Threads : pc[u] = "repo_lock" /\ Writes(loc[u].op)}

\* r.mu.Lock() / r.mu.RLock() and d.mu.Lock() of goroutine t; RLock of
\* sync.RWMutex waits while a goroutine is in Lock, so that readers that
\* keep coming do not hold a writer back for ever
Acquire(t) ==
    \/ /\ Writes(loc[t].op) \/ PendingWriters = {}
       /\ RepoLock(t)
       /\ AuxFrame
    \/ SignLock(t) /\ DevFrame

\* the other steps of goroutine t inside a call or a request
Proceed(t) ==
    \/ RepoCreate(t) /\ AuxFrame
    \/ RepoGet(t) /\ AuxFrame
    \/ RepoUpdate(t) /\ AuxFrame
    \/ RepoDelete(t) /\ AuxFrame
    \/ ClientReturn(t) /\ AuxFrame
    \/ SignCompose(t) /\ DevFrame
    \/ SignCommit(t) /\ DevFrame
    \/ SignUnlock(t) /\ DevFrame
    \/ HSignFetched(t) /\ AuxFrame
    \/ HSignSigned(t) /\ DevFrame
    \/ HSignStored(t) /\ AuxFrame
    \/ HDone(t) /\ AuxFrame

NextLive ==
    \/ Starts
    \/ \E t \in Threads : Acquire(t)
    \/ \E t \in Threads : Proceed(t)

\* the scheduler runs every goroutine that can run, and sync.Mutex and
\* sync.RWMutex hand the lock to a goroutine that keeps waiting for it
\* (starvation mode; a waiting writer holds back new readers)
Fairness == \A t \in Threads : WF_vars(Proceed(t)) /\ SF_vars(Acquire(t))

SpecLive == InitDevice /\ [][NextLive]_vars /\ Fairness

----------------------------------------------------------------------------
(* Properties of the device *)

\* the chain seed of a device: base64 of its id
Seed(d) == Base64Std(StringBytes(d.ID))

\* C1: a device made by NewSignatureDevice on which N SignTransaction calls
\* succeeded (and none is running) has SignatureCounter = N and, for N >= 1,
\* LastSignature = the signature the N-th call returned
C1_CounterCountsSigns ==
    \A r \in known :
        (meta[r].pure /\ Inside(r) = {}) =>
            LET n == Len(meta[r].log)
            IN  /\ heap[r].SignatureCounter = n
                /\ n >= 1 => heap[r].LastSignature = meta[r].log[n].signature

C1_Witness ==
    \E r \in known :
        /\ meta[r].pure
        /\ Inside(r) = {}
        /\ Len(meta[r].log) = MaxSigns
        /\ heap[r].SignatureCounter = MaxSigns

\* the entries are what consecutive calls on a fresh device return
SerialChain(seed, entries) ==
    \A k \in 1..Len(entries) :
        entries[k].securedData =
            Sprintf_d_s_s(k - 1, entries[k].data,
                          IF k = 1 THEN seed ELSE entries[k - 1].signature)

\* C2: a successful SignTransaction(rawData) returns "<c>_<rawData>_<s>" with
\* c, s the counter and last signature of the device before the call; so the
\* k-th successful sign of a new device carries counter k and the signature
\* of sign k-1, base64(id) for the first
C2_SecuredDataChains ==
    /\ \A t \in Threads :
          (pc[t] = "sign_unlock" /\ ~loc[t].err) =>
              SignResult(t).securedData =
                  FormatInt(loc[t].pre.counter) \o <<"_">> \o loc[t].data
                      \o <<"_">> \o loc[t].pre.last
    /\ \A r \in known : meta[r].pure => SerialChain(Seed(heap[r]), meta[r].log)

C2_Witness ==
    \E r \in known :
        /\ meta[r].pure
        /\ Len(meta[r].log) >= 2
        /\ meta[r].log[1].securedData = <<"0", "_", "h", "_", "Z", "D", "E", "=">>
        /\ meta[r].log[2].securedData =
              <<"1", "_", "a", "_", "b", "_">> \o meta[r].log[1].signature

Perms(n) == {p \in [1..n -> 1..n] : \A i, j \in 1..n : p[i] = p[j] => i = j}

\* C3: the SignTransaction calls goroutines make on one device, however they
\* interleave, return securedData whose counters are 0..M-1, each once, and
\* the results are those of the calls made one after the other in some order
C3_ConcurrentSignsSerialize ==
    \A r \in known :
        meta[r].pure =>
            LET log == meta[r].log
                n == Len(log)
            IN  /\ \A c \in 0..(n - 1) :
                      Cardinality({k \in 1..n :
                          ParseSecuredData(log[k].securedData).counter = c}) = 1
                /\ \E p \in Perms(n) :
                      SerialChain(Seed(heap[r]), [k \in 1..n |-> log[p[k]]])

C3_Witness ==
    \E r \in known :
        /\ meta[r].pure
        /\ meta[r].overlap
        /\ Len(meta[r].log) >= 2
        /\ Inside(r) = {}

\* C5: when GetSigner or Sign fails, SignTransaction returns ("", "", err)
\* and the counter and last signature of the device are what they were
\* before the call
C5_FailedSignChangesNothing ==
    \A t \in Threads :
        (pc[t] = "sign_unlock" /\ loc[t].err) =>
            /\ SignResult(t).signature = <<>>
            /\ SignResult(t).securedData = <<>>
            /\ Chain(heap[loc[t].dev]) = loc[t].pre

C5_Witness ==
    \E t \in Threads :
        /\ pc[t] = "sign_unlock"
        /\ loc[t].err
        /\ loc[t].pre.counter >= 1
        /\ GetSigner(heap[loc[t].dev], mem).err

\* Sign itself fails (the key decodes but cannot sign)
SignFails_Witness ==
    \E t \in Threads :
        /\ pc[t] = "sign_unlock"
        /\ loc[t].err
        /\ ~GetSigner(heap[loc[t].dev], mem).err

C22_BadAlgorithmRejected ==
    /\ (newres.called /\ (newres.id = <<>> \/ newres.algorithm \notin {"RSA", "ECC"}))
          => newres.err /\ newres.value = NoValue
    /\ ToUpper(newres.algorithm) \notin {"RSA", "ECC"} =>
          /\ devices = <<>>
          /\ heap = <<>>
          /\ \A t \in Threads :
                loc[t].ret = "hcreate" =>
                    pc[t] = "h_done" /\ loc[t].status = 400 /\ loc[t].dev = 0

\* NewSignatureDevice("d1", "DSA", ...) has failed and a create request with
\* id d1 and algorithm DSA is answered
C22_Witness ==
    /\ newres.called
    /\ newres.err
    /\ newres.id = <<"d", "1">>
    /\ newres.algorithm = "DSA"
    /\ \E t \in Threads : pc[t] = "h_done" /\ loc[t].ret = "hcreate" /\ loc[t].status = 400

\* NewSignatureDevice("", "RSA", ...) has failed
NewEmptyId_Witness ==
    newres.called /\ newres.err /\ newres.id = <<>> /\ newres.algorithm = "RSA"

\* a create request with a valid id and algorithm has stored its device
CreateStored_Witness ==
    /\ newres.algorithm = "RSA"
    /\ \E t \in Threads : pc[t] = "h_done" /\ loc[t].ret = "hcreate" /\ loc[t].status = 201
    /\ DOMAIN devices = {newres.id}

\* the fields SignTransaction does not write
KeptFields == {"ID", "Label", "Algorithm", "PublicKey", "PrivateKey"}

\* C28: no step of a SignTransaction call, of one that succeeds or of one
\* that fails, changes the ID, Label, Algorithm, public key bytes or private
\* key bytes of a device; the object stays and only SignatureCounter and
\* LastSignature of the receiver can differ after the step
C28_SignKeepsOtherFields ==
    [][(\E t \in Threads : pc'[t] # pc[t]) =>
          \A r \in known :
              /\ r \in DOMAIN heap'
              /\ \A f \in KeptFields :
                    DeviceValue(heap'[r], mem')[f] = DeviceValue(heap[r], mem)[f]
              /\ (\A t \in Threads : loc[t].dev # r)
                    => DeviceValue(heap'[r], mem') = DeviceValue(heap[r], mem)]_vars

\* a call has signed and a later call on the same device, whose private key
\* bytes client code has overwritten, has failed
C28_Witness ==
    \E t \in Threads :
        /\ pc[t] = "sign_unlock"
        /\ loc[t].err
        /\ heap[loc[t].dev].SignatureCounter = 1
        /\ meta[loc[t].dev].writes = 1

\* the goroutine whose call moves in this step
Moves(t) == pc'[t] # pc[t]

\* C20: a SignTransaction call waiting for the mutex of its device goes on
\* when no call is inside on that device, whatever calls are inside on other
\* devices; the steps of a call change no other device; and what a call
\* returns and leaves in its device is made of the counter, last signature
\* and key of its own device and of its data
C20_DevicesDoNotContend ==
    /\ [](\A t \in Threads :
            (pc[t] = "sign_lock" /\ Inside(loc[t].dev) = {}) => ENABLED SignLock(t))
    /\ [][\A t \in Threads, r \in known :
            (Moves(t) /\ loc[t].dev # r /\ loc'[t].dev # r)
                => /\ heap'[r] = heap[r]
                   /\ Bytes(mem', heap'[r].PublicKey) = Bytes(mem, heap[r].PublicKey)
                   /\ Bytes(mem', heap'[r].PrivateKey) = Bytes(mem, heap[r].PrivateKey)]_vars
    /\ [](\A t \in Threads :
            (pc[t] = "sign_unlock" /\ ~loc[t].err) =>
                LET d == heap[loc[t].dev]
                    sd == Sprintf_d_s_s(loc[t].pre.counter, loc[t].data, loc[t].pre.last)
                IN  /\ loc[t].securedData = sd
                    /\ \E out \in Sign(GetSigner(d, mem), sd) :
                          ~out.err /\ loc[t].signature = Base64Std(out.signature)
                    /\ Chain(d) = [counter |-> loc[t].pre.counter + 1,
                                   last |-> loc[t].signature])

\* a call took the mutex of its device while a call was inside on the other
\* device, and has signed
C20_Witness ==
    \E t, u \in Threads :
        /\ loc[t].dev # loc[u].dev
        /\ pc[t] \in {"sign_compose", "sign_commit", "sign_unlock"}
        /\ pc[u] = "sign_unlock"
        /\ ~loc[u].err
        /\ loc[u].pre.counter = 0
        /\ heap[loc[t].dev].SignatureCounter = 1

\* a call on one device succeeds while the call on the other, whose key
\* client code has overwritten, fails
OtherDeviceFails_Witness ==
    \E t, u \in Threads :
        /\ loc[t].dev # loc[u].dev
        /\ pc[t] = "sign_unlock" /\ loc[t].err
        /\ pc[u] = "sign_unlock" /\ ~loc[u].err

----------------------------------------------------------------------------
(* Properties of the repository *)

\* the devices a repository read hands to its caller
Returned(t) == {DeviceValue(heap[o], mem) : o \in loc[t].outs}

\* C10: a Get that runs after client code changed a device an earlier Get or
\* List of that id returned (a field written, key bytes written, or
\* SignTransaction called on it), no Create/Update/Delete of the id in
\* between, returns the record as it was stored
C10_ReadsAreCopies ==
    \A t \in Threads :
        (pc[t] = "repo_ret" /\ loc[t].op = "Get" /\ ~loc[t].err /\ loc[t].after)
            => Returned(t) = loc[t].exp

\* a Get after the private key bytes of a device Get returned were written
C10_Witness ==
    \E t \in Threads, r \in known :
        /\ pc[t] = "repo_ret"
        /\ loc[t].op = "Get"
        /\ loc[t].after
        /\ meta[r].from = "get"
        /\ meta[r].oid = loc[t].id
        /\ ~meta[r].stale
        /\ Bytes(mem, heap[r].PrivateKey) = Garbage
        /\ \A v \in Returned(t) : v.PrivateKey.Type = "PRIVATE_KEY"

\* a Get after SignTransaction on a device List returned
SignedListCopy_Witness ==
    \E t \in Threads, r \in known :
        /\ pc[t] = "repo_ret"
        /\ loc[t].op = "Get"
        /\ loc[t].after
        /\ meta[r].from = "list"
        /\ meta[r].oid = loc[t].id
        /\ ~meta[r].stale
        /\ meta[r].writes = 0
        /\ heap[r].SignatureCounter = 1
        /\ \A v \in Returned(t) : v.SignatureCounter = 0

\* every repository read returns the records as they were stored
ReadsReturnStored ==
    \A t \in Threads :
        (pc[t] = "repo_ret" /\ loc[t].op \in {"Get", "List"} /\ ~loc[t].err)
            => Returned(t) = loc[t].exp

\* the records of the repository, key bytes read out
StoreValue == [id \in DOMAIN devices |-> DeviceValue(heap[devices[id]], mem)]

\* C11: the record of every id is the value the last successful Create or
\* Update of that id was given, whatever client code did since to the device
\* it passed (fields or key bytes written, SignTransaction called on it)
C11_StoreKeepsCopies == StoreValue = stored

\* the device passed to Create has signed since, the record has not moved
C11_Witness ==
    \E r \in known :
        /\ meta[r].from = "new"
        /\ meta[r].writes = 0
        /\ calls = 1
        /\ heap[r].ID \in DOMAIN devices
        /\ heap[r].SignatureCounter = 1
        /\ stored[heap[r].ID].SignatureCounter = 0
        /\ heap[devices[heap[r].ID]].LastSignature = Seed(heap[r])

\* goroutine t runs the body of repository method op in this step
BodyStep(t, op) == pc[t] = "repo_cs" /\ loc[t].op = op /\ pc'[t] = "repo_ret"

\* the device argument is nil or has an empty id
NoDevice(device) == device = 0 \/ heap[device].ID = <<>>

\* C12: a Create whose device is nil, has an empty id, or has the id of a
\* record present returns an error and leaves the ids and every record
\* (algorithm, label, counter, lastSignature, keys) as they were
C12_CreateRejects ==
    [][\A t \in Threads :
          (/\ BodyStep(t, "Create")
           /\ NoDevice(loc[t].dev) \/ heap[loc[t].dev].ID \in DOMAIN devices)
              => /\ loc'[t].err
                 /\ StoreValue' = StoreValue]_vars

\* Create was given a device that differs from the record of its id
C12_Witness ==
    \E t \in Threads :
        /\ pc[t] = "repo_ret"
        /\ loc[t].op = "Create"
        /\ loc[t].err
        /\ ~NoDevice(loc[t].dev)
        /\ heap[loc[t].dev].ID \in DOMAIN devices
        /\ heap[loc[t].dev].Label # StoreValue[heap[loc[t].dev].ID].Label
        /\ StoreValue = stored

\* Create was given nil / a device with an empty id
CreateNil_Witness ==
    \E t \in Threads :
        pc[t] = "repo_ret" /\ loc[t].op = "Create" /\ loc[t].err /\ loc[t].dev = 0

CreateEmptyId_Witness ==
    \E t \in Threads :
        /\ pc[t] = "repo_ret"
        /\ loc[t].op = "Create"
        /\ loc[t].err
        /\ loc[t].dev # 0
        /\ heap[loc[t].dev].ID = <<>>

\* C13: an Update whose device is nil, has an empty id, or has an id no
\* record has returns an error and leaves the ids and every record as they
\* were; no Update adds an id
C13_UpdateRejects ==
    [][\A t \in Threads :
          /\ (/\ BodyStep(t, "Update")
              /\ NoDevice(loc[t].dev) \/ heap[loc[t].dev].ID \notin DOMAIN devices)
                 => /\ loc'[t].err
                    /\ StoreValue' = StoreValue
          /\ BodyStep(t, "Update") => DOMAIN devices' \subseteq DOMAIN devices]_vars

\* Update was given a device whose id no record has, while another id is stored
C13_Witness ==
    \E t \in Threads :
        /\ pc[t] = "repo_ret"
        /\ loc[t].op = "Update"
        /\ loc[t].err
        /\ ~NoDevice(loc[t].dev)
        /\ heap[loc[t].dev].ID \notin DOMAIN devices
        /\ DOMAIN devices # {}
        /\ StoreValue = stored

\* Update was given nil / a device with an empty id
UpdateNil_Witness ==
    \E t \in Threads :
        pc[t] = "repo_ret" /\ loc[t].op = "Update" /\ loc[t].err /\ loc[t].dev = 0

UpdateEmptyId_Witness ==
    \E t \in Threads :
        /\ pc[t] = "repo_ret"
        /\ loc[t].op = "Update"
        /\ loc[t].err
        /\ loc[t].dev # 0
        /\ heap[loc[t].dev].ID = <<>>
        /\ DOMAIN devices # {}

\* C14: an Update of a device whose id has a record makes the record of that
\* id equal to the device in every field and key byte and leaves the other
\* records and the ids as they were; a Get of an id that has a record returns
\* that record, so the Get that follows the Update returns the argument's fields
C14_UpdateReplaces ==
    [][\A t \in Threads :
          /\ (/\ BodyStep(t, "Update")
              /\ ~NoDevice(loc[t].dev)
              /\ heap[loc[t].dev].ID \in DOMAIN devices)
                 => /\ ~loc'[t].err
                    /\ StoreValue' = [StoreValue EXCEPT ![heap[loc[t].dev].ID] =
                                         DeviceValue(heap[loc[t].dev], mem)]
          /\ (BodyStep(t, "Get") /\ loc[t].id \in DOMAIN devices)
                 => /\ ~loc'[t].err
                    /\ {DeviceValue(heap'[o], mem') : o \in loc'[t].outs}
                          = {StoreValue[loc[t].id]}
                    /\ StoreValue' = StoreValue]_vars

\* Update has replaced a record: a device Get returned before, which client
\* code left alone, differs from the record, which equals the argument
C14_Witness ==
    \E t \in Threads, r \in known :
        /\ pc[t] = "repo_ret"
        /\ loc[t].op = "Update"
        /\ ~loc[t].err
        /\ meta[r].from = "get"
        /\ ~meta[r].dirty
        /\ meta[r].stale
        /\ meta[r].oid = heap[loc[t].dev].ID
        /\ meta[r].oid \in DOMAIN devices
        /\ DeviceValue(heap[r], mem) # StoreValue[meta[r].oid]
        /\ DeviceValue(heap[loc[t].dev], mem) = StoreValue[meta[r].oid]

\* Update has succeeded while another id has a record
UpdateBesideOther_Witness ==
    \E t \in Threads :
        /\ pc[t] = "repo_ret"
        /\ loc[t].op = "Update"
        /\ ~loc[t].err
        /\ Cardinality(DOMAIN devices) = 2

\* C15: a Delete of an id that has no record returns an error and leaves
\* every record as it was; a Delete of an id that has a record removes that
\* record and no other and changes none; a Get of an id that has no record
\* returns the error and no device; List returns the records there are
C15_DeleteRemovesOne ==
    [][\A t \in Threads :
          /\ (BodyStep(t, "Delete") /\ loc[t].id \notin DOMAIN devices)
                 => /\ loc'[t].err
                    /\ StoreValue' = StoreValue
          /\ (BodyStep(t, "Delete") /\ loc[t].id \in DOMAIN devices)
                 => /\ ~loc'[t].err
                    /\ StoreValue' = [i \in DOMAIN devices \ {loc[t].id} |-> StoreValue[i]]
          /\ (BodyStep(t, "Get") /\ loc[t].id \notin DOMAIN devices)
                 => /\ loc'[t].err
                    /\ loc'[t].outs = {}
          /\ BodyStep(t, "List")
                 => /\ ~loc'[t].err
                    /\ {DeviceValue(heap'[o], mem') : o \in loc'[t].outs}
                          = {StoreValue[i] : i \in DOMAIN devices}
                    /\ Cardinality(loc'[t].outs) = Cardinality(DOMAIN devices)]_vars

\* Delete has removed the record of its id and another record is there
C15_Witness ==
    \E t \in Threads :
        /\ pc[t] = "repo_ret"
        /\ loc[t].op = "Delete"
        /\ ~loc[t].err
        /\ loc[t].id \notin DOMAIN devices
        /\ DOMAIN devices # {}

\* Delete of an id that has no record, another id has one
DeleteAbsent_Witness ==
    \E t \in Threads :
        /\ pc[t] = "repo_ret"
        /\ loc[t].op = "Delete"
        /\ loc[t].err
        /\ DOMAIN devices # {}

\* Get of an id has found no record while client code holds a device with that id
GetAbsent_Witness ==
    \E t \in Threads, r \in known :
        /\ pc[t] = "repo_ret"
        /\ loc[t].op = "Get"
        /\ loc[t].err
        /\ heap[r].ID = loc[t].id

\* C16: in every state of the store no record has an empty id, every record
\* is under the key that is its ID field, and no two keys have the same
\* record, so there is one record per id at most
C16_OneRecordPerId ==
    /\ \A id \in DOMAIN devices :
          /\ id # <<>>
          /\ devices[id] \in DOMAIN heap
          /\ heap[devices[id]].ID = id
    /\ \A i, j \in DOMAIN devices : devices[i] = devices[j] => i = j

\* two records are stored and client code has written the ID of the device
\* it passed to Create
C16_Witness ==
    /\ Cardinality(DOMAIN devices) = 2
    /\ \E r \in known : meta[r].from = "new" /\ meta[r].writes > 0
    /\ \A t \in Threads : pc[t] = "idle"

\* C18: the Algorithm of the record of an id is the same in every state in
\* which the record is there: no step changes it
C18_StoredAlgorithmFixed ==
    [][\A id \in DOMAIN devices \cap DOMAIN devices' :
          StoreValue'[id].Algorithm = StoreValue[id].Algorithm]_vars

\* Update has stored a device whose Algorithm is another one of the two than
\* that of the device client code made
AlgorithmReplaced_Witness ==
    \E t \in Threads, id \in DOMAIN devices :
        /\ pc[t] = "repo_ret"
        /\ loc[t].op = "Update"
        /\ ~loc[t].err
        /\ heap[loc[t].dev].ID = id
        /\ StoreValue[id].Algorithm = "RSA"

\* the goroutines between the lock and the unlock of a repository method
InRepo == {t \in Threads : pc[t] = "repo_cs"}

\* C19: when a Create, Update or Delete is between its Lock and Unlock no
\* other repository method is between its lock and unlock; the lock word
\* names that writer and no reader, or the readers inside and no writer
C19_WritersExclude ==
    /\ \A t \in InRepo :
          Writes(loc[t].op) => /\ InRepo = {t}
                               /\ rw = [writer |-> t, readers |-> {}]
    /\ (\A t \in InRepo : ~Writes(loc[t].op)) => rw = [writer |-> 0, readers |-> InRepo]

\* a Get and a List are between RLock and RUnlock at the same time
C19_Witness ==
    \E t, u \in InRepo :
        /\ loc[t].op = "Get"
        /\ loc[u].op = "List"
        /\ rw.readers = {t, u}

\* a writer is inside while the other goroutine waits at the lock
WriterInside_Witness ==
    \E t \in InRepo, u \in Threads :
        /\ Writes(loc[t].op)
        /\ pc[u] = "repo_lock"
        /\ ~ENABLED RepoLock(u)

\* C25: Create calls that goroutines make at the same time with devices of
\* different ids all succeed; when they have returned every device has its
\* record, and the List called then returns exactly those records
C25_NoCreateLost ==
    /\ \A t \in Threads :
          (pc[t] = "repo_ret" /\ loc[t].op = "Create") => ~loc[t].err
    /\ AllCreated => StoreValue = [id \in {heap[r].ID : r \in Made} |->
                                     DeviceValue(heap[CHOOSE r \in Made : heap[r].ID = id], mem)]
    /\ \A t \in Threads :
          (pc[t] = "repo_ret" /\ loc[t].op = "List") =>
              /\ ~loc[t].err
              /\ Cardinality(loc[t].outs) = Cardinality(Made)
              /\ Returned(t) = {DeviceValue(heap[r], mem) : r \in Made}

\* two Create calls have waited for the lock together and List has returned
\* both records
C25_Witness ==
    \E t \in Threads :
        /\ pc[t] = "repo_ret"
        /\ loc[t].op = "List"
        /\ Cardinality(loc[t].outs) = 2
        /\ calls = 3

\* both goroutines are at the lock of Create
CreatesTogether_Witness ==
    /\ \A t \in Threads : pc[t] = "repo_lock" /\ loc[t].op = "Create"
    /\ \E t, u \in Threads : heap[loc[t].dev].ID # heap[loc[u].dev].ID

\* the data fields of a device
DataFields ==
    {"ID", "Label", "Algorithm", "SignatureCounter", "LastSignature", "PublicKey",
     "PrivateKey"}

\* C27: Create accepts every device that is not nil, has an id and whose id
\* has no record, and the record it stores has each of the seven data fields
\* equal to the device's; a Get of the id returns a device with each of the
\* seven fields equal to those the device had when it was stored
C27_CreateGetRoundTrip ==
    [][\A t \in Threads :
          /\ (/\ BodyStep(t, "Create")
              /\ ~NoDevice(loc[t].dev)
              /\ heap[loc[t].dev].ID \notin DOMAIN devices)
                 => /\ ~loc'[t].err
                    /\ heap[loc[t].dev].ID \in DOMAIN devices'
                    /\ \A f \in DataFields :
                          StoreValue'[heap[loc[t].dev].ID][f]
                              = DeviceValue(heap[loc[t].dev], mem)[f]
          /\ (BodyStep(t, "Get") /\ ~loc'[t].err)
                 => /\ Cardinality(loc'[t].outs) = 1
                    /\ \A o \in loc'[t].outs : \A f \in DataFields :
                          DeviceValue(heap'[o], mem')[f] = stored[loc[t].id][f]]_vars

\* Create, then Get: the Get returns the device as it was at Create, with a
\* signature made before, while client code has written to the device since
C27_Witness ==
    \E t \in Threads, r \in known :
        /\ pc[t] = "repo_ret"
        /\ loc[t].op = "Get"
        /\ ~loc[t].err
        /\ calls = 2
        /\ Returned(t) = {stored[loc[t].id]}
        /\ stored[loc[t].id].SignatureCounter = 1
        /\ meta[r].from = "new"
        /\ meta[r].writes = 1
        /\ heap[r].ID = loc[t].id
        /\ DeviceValue(heap[r], mem) # stored[loc[t].id]

\* C29: no step of a Get or List call, from the call to the return, whether
\* the call succeeds or fails, changes the ids that have records, the map or
\* any field or key byte of a record
C29_ReadsChangeNothing ==
    [][\A t \in Threads :
          (Moves(t) /\ (loc[t].op \in {"Get", "List"} \/ loc'[t].op \in {"Get", "List"}))
              => /\ devices' = devices
                 /\ StoreValue' = StoreValue]_vars

\* a Get has failed and a List has returned a device, a record is stored
C29_Witness ==
    \E t, u \in Threads :
        /\ pc[t] = "repo_ret" /\ loc[t].op = "Get" /\ loc[t].err
        /\ pc[u] = "repo_ret" /\ loc[u].op = "List" /\ Cardinality(loc[u].outs) = 1
        /\ Cardinality(DOMAIN devices) = 1

\* a Get has returned the one record
GetReturned_Witness ==
    \E t \in Threads :
        /\ pc[t] = "repo_ret" /\ loc[t].op = "Get" /\ ~loc[t].err
        /\ loc[t].id \in DOMAIN devices

----------------------------------------------------------------------------
(* Properties of the service path *)

\* the counters carried by the securedData strings of a sequence
CountersOf(sds) == {ParseSecuredData(sds[k]).counter : k \in 1..Len(sds)}

\* C4: when the K sign requests answered with success for a stored id are
\* all that were made (none is being handled), the stored record has
\* signatureCounter = K and the K securedData strings returned carry the K
\* distinct counters 0..K-1
C4_NoCounterAdvanceLost ==
    \A id \in DOMAIN devices :
        SignRequests(id) = {} =>
            LET k == Len(oks[id])
            IN  /\ heap[devices[id]].SignatureCounter = k
                /\ CountersOf(oks[id]) = 0..(k - 1)

\* requests handled one after the other do advance the stored counter
SerialSignRequests_Witness ==
    \E id \in DOMAIN devices :
        /\ SignRequests(id) = {}
        /\ Len(oks[id]) = 2
        /\ heap[devices[id]].SignatureCounter = 2
        /\ CountersOf(oks[id]) = {0, 1}

\* two requests answered with the same securedData, one advance stored
LostAdvance_Witness ==
    \E id \in DOMAIN devices :
        /\ SignRequests(id) = {}
        /\ Len(oks[id]) = 2
        /\ oks[id][1] = oks[id][2]
        /\ heap[devices[id]].SignatureCounter = 1

\* C17: the signatureCounter of the record of an id never goes down while
\* the record is there: a step that changes it adds 1 to it
C17_StoredCounterOnlyGrows ==
    [][\A id \in DOMAIN devices \cap DOMAIN devices' :
          \/ StoreValue'[id].SignatureCounter = StoreValue[id].SignatureCounter
          \/ StoreValue'[id].SignatureCounter = StoreValue[id].SignatureCounter + 1]_vars

\* the same, of decreases alone
StoredCounterNeverDecreases ==
    [][\A id \in DOMAIN devices \cap DOMAIN devices' :
          StoreValue'[id].SignatureCounter >= StoreValue[id].SignatureCounter]_vars

\* three sign requests answered with success, the stored counter is 1
CounterWentBack_Witness ==
    \E id \in DOMAIN devices :
        /\ SignRequests(id) = {}
        /\ Len(oks[id]) = 3
        /\ CountersOf(oks[id]) = {0, 1}
        /\ heap[devices[id]].SignatureCounter = 1

\* the goroutines that have written the response of a create, get or list
\* request
Answered == {t \in Threads : pc[t] = "h_done" /\ loc[t].ret \in {"hcreate", "hget", "hlist"}}

\* memory m with the private key bytes of device d replaced by k
WithPrivateKey(d, m, k) == IF d.PrivateKey = 0 THEN m ELSE [m EXCEPT ![d.PrivateKey] = k]

\* C21: every device in the body of a create, get or list response has the
\* fields id, label, algorithm, signature_counter and public_key and no
\* other, with the label, algorithm and public key of the record of its id;
\* its one field of bytes holds the private key bytes of no device; and a
\* device with other private key bytes has the same projection
C21_ResponsesHidePrivateKey ==
    /\ \A t \in Answered : \A b \in loc[t].body :
          /\ DOMAIN b = {"id", "label", "algorithm", "signature_counter", "public_key"}
          /\ \A r \in DOMAIN heap :
                heap[r].PrivateKey # 0 => b.public_key # Bytes(mem, heap[r].PrivateKey)
          /\ b.id \in DOMAIN devices
          /\ b.label = heap[devices[b.id]].Label
          /\ b.algorithm = heap[devices[b.id]].Algorithm
          /\ b.public_key = Bytes(mem, heap[devices[b.id]].PublicKey)
    /\ \A r \in DOMAIN heap : \A k \in ForeignKeys \cup {NilBytes} :
          CreateDeviceResponse(heap[r], WithPrivateKey(heap[r], mem, k))
              = CreateDeviceResponse(heap[r], mem)

\* a get request is answered with the projection of a record that has signed
C21_Witness ==
    \E t \in Answered :
        /\ loc[t].ret = "hget"
        /\ loc[t].status = 200
        /\ \E b \in loc[t].body : b.signature_counter = 1 /\ b.public_key # NilBytes

\* a create / a list request is answered with a projection
CreateAnswered_Witness ==
    \E t \in Answered : loc[t].ret = "hcreate" /\ loc[t].status = 201 /\ loc[t].body # {}

ListAnswered_Witness ==
    \E t \in Answered : loc[t].ret = "hlist" /\ loc[t].status = 200 /\ loc[t].body # {}

\* C26: the Get of a sign request for an id that has no record fails; the
\* request is then answered 404 with no signature and no signed data, and
\* none of its steps changes a record or adds one
C26_SignUnknownDevice ==
    [][\A t \in Threads :
          loc[t].ret = "hsign" =>
              /\ (BodyStep(t, "Get") /\ loc[t].id \notin DOMAIN devices)
                    => loc'[t].err /\ StoreValue' = StoreValue
              /\ (pc[t] = "repo_ret" /\ loc[t].op = "Get" /\ loc[t].err /\ Moves(t))
                    => /\ pc'[t] = "h_done"
                       /\ loc'[t].status = 404
                       /\ loc'[t].signature = <<>>
                       /\ loc'[t].securedData = <<>>
                       /\ StoreValue' = StoreValue
                       /\ oks' = oks
              /\ (pc[t] = "h_done" /\ Moves(t))
                    => pc'[t] = "idle" /\ StoreValue' = StoreValue]_vars

\* a sign request for an id that has no record is answered 404 while another
\* id has a record
C26_Witness ==
    \E t \in Threads :
        /\ pc[t] = "h_done"
        /\ loc[t].ret = "hsign"
        /\ loc[t].status = 404
        /\ loc[t].id \notin DOMAIN devices
        /\ DOMAIN devices # {}

\* C30: in the sign request path repository.Update is called only after
\* SignTransaction succeeded, and 200 is answered only after Update
\* succeeded; a request whose signing fails answers 500 without calling
\* Update and no step of it but the body of its Update changes a record; a
\* request whose Update fails answers 500 without the signature
C30_SignPathOrder ==
    [][\A t \in Threads :
          (loc[t].ret = "hsign" /\ Moves(t)) =>
              /\ (loc'[t].op = "Update" /\ loc[t].op # "Update")
                    => /\ pc[t] = "sign_unlock"
                       /\ ~loc[t].err
                       /\ loc[t].signature # <<>>
                       /\ heap[loc[t].dev].LastSignature = loc[t].signature
              /\ (pc'[t] = "h_done" /\ loc'[t].status = 200)
                    => /\ pc[t] = "repo_ret"
                       /\ loc[t].op = "Update"
                       /\ ~loc[t].err
                       /\ loc'[t].signature = loc[t].signature
                       /\ loc'[t].signature # <<>>
              /\ (pc[t] = "sign_unlock" /\ loc[t].err)
                    => /\ pc'[t] = "h_done"
                       /\ loc'[t].status = 500
                       /\ loc'[t].signature = <<>>
                       /\ loc'[t].securedData = <<>>
              /\ (pc[t] = "repo_ret" /\ loc[t].op = "Update" /\ loc[t].err)
                    => /\ pc'[t] = "h_done"
                       /\ loc'[t].status = 500
                       /\ loc'[t].signature = <<>>
                       /\ loc'[t].securedData = <<>>
              /\ ~BodyStep(t, "Update")
                    => devices' = devices /\ StoreValue' = StoreValue
              /\ (BodyStep(t, "Update") /\ loc'[t].err)
                    => devices' = devices /\ StoreValue' = StoreValue]_vars

\* a sign request was answered 500 because signing failed: client code made
\* one repository call, the Create of the record, which is as it was stored
C30_Witness ==
    \E t \in Threads :
        /\ pc[t] = "h_done"
        /\ loc[t].ret = "hsign"
        /\ loc[t].status = 500
        /\ loc[t].signature = <<>>
        /\ calls = 1
        /\ loc[t].id \in DOMAIN devices
        /\ StoreValue = stored
        /\ heap[devices[loc[t].id]].SignatureCounter = 0

\* a sign request was answered 500 because Update failed: no field of a
\* device was written by client code and the record is gone
UpdateFailed_Witness ==
    \E t \in Threads :
        /\ pc[t] = "h_done"
        /\ loc[t].ret = "hsign"
        /\ loc[t].status = 500
        /\ loc[t].signature = <<>>
        /\ WritesMade = 0
        /\ loc[t].id \notin DOMAIN devices

\* a sign request was answered 200 with the signature the record holds
SignStored_Witness ==
    \E t \in Threads :
        /\ pc[t] = "h_done"
        /\ loc[t].ret = "hsign"
        /\ loc[t].status = 200
        /\ loc[t].id \in DOMAIN devices
        /\ heap[devices[loc[t].id]].LastSignature = loc[t].signature

\* the sign requests whose record was deleted after they fetched it
Orphaned == {t \in Threads : /\ loc[t].ret = "hsign"
                              /\ loc[t].op \in {"Sign", "Update"}
                              /\ meta[loc[t].dev].gone}

\* C31: a sign request whose record was deleted between its fetch and its
\* Update ends with an error, and its Update leaves the store as it is: the
\* deleted record does not come back
C31_DeletedStaysDeleted ==
    [][\A t \in Orphaned :
          /\ BodyStep(t, "Update")
                => /\ loc'[t].err
                   /\ devices' = devices
                   /\ StoreValue' = StoreValue
          /\ (pc[t] = "repo_ret" /\ loc[t].err /\ Moves(t))
                => /\ pc'[t] = "h_done"
                   /\ loc'[t].status = 500
                   /\ loc'[t].signature = <<>>]_vars

\* the part that holds: the Update of a sign request whose id has no record
\* fails and stores nothing, the request is answered 500 without the
\* signature, and no step of a sign request adds an id to the store
UpdateOfDeletedFails ==
    [][\A t \in Threads :
          (loc[t].ret = "hsign" /\ Moves(t)) =>
              /\ DOMAIN devices' \subseteq DOMAIN devices
              /\ (BodyStep(t, "Update") /\ loc[t].id \notin DOMAIN devices)
                    => /\ loc'[t].err
                       /\ devices' = devices
                       /\ StoreValue' = StoreValue
              /\ (pc[t] = "repo_ret" /\ loc[t].op = "Update" /\ loc[t].err)
                    => /\ pc'[t] = "h_done"
                       /\ loc'[t].status = 500
                       /\ loc'[t].signature = <<>>]_vars

\* a sign request is about to call Update with the device of a record that
\* was deleted, and the id has a record again
OrphanedUpdate_Witness ==
    \E t \in Orphaned :
        /\ pc[t] = "repo_cs"
        /\ loc[t].op = "Update"
        /\ loc[t].id \in DOMAIN devices

\* the Create calls that have returned, and those that returned nil
Created == {t \in Threads : pc[t] = "repo_ret" /\ loc[t].op = "Create"}
Won == {t \in Created : ~loc[t].err}

\* C32: of the Create calls that goroutines make together with devices of
\* one id exactly one returns nil; the others were given a device with that
\* id and fail because the id has a record; the record is a copy of the
\* device of the call that returned nil
C32_OneCreateWins ==
    /\ Cardinality(Won) <= 1
    /\ \A t \in Won :
          /\ DOMAIN devices = {heap[loc[t].dev].ID}
          /\ StoreValue[heap[loc[t].dev].ID] = DeviceValue(heap[loc[t].dev], mem)
    /\ (AllBack /\ Cardinality(Created) = Cardinality(Made)) =>
          /\ Cardinality(Won) = 1
          /\ \A t \in Created \ Won :
                /\ loc[t].dev # 0
                /\ heap[loc[t].dev].ID # <<>>
                /\ heap[loc[t].dev].ID \in DOMAIN devices
                /\ StoreValue[heap[loc[t].dev].ID] # DeviceValue(heap[loc[t].dev], mem)

\* both calls waited for the lock together; both have returned, one with
\* nil and one with the error
C32_Witness ==
    /\ Cardinality(Created) = 2
    /\ Cardinality(Won) = 1
    /\ Cardinality(DOMAIN devices) = 1

\* both goroutines are at the lock of Create with devices of one id
TwinsTogether_Witness ==
    /\ \A t \in Threads : pc[t] = "repo_lock" /\ loc[t].op = "Create"
    /\ \A t, u \in Threads : heap[loc[t].dev].ID = heap[loc[u].dev].ID
    /\ \E t, u \in Threads : loc[t].dev # loc[u].dev

\* goroutine t holds the store lock (as the writer or as a reader) / the
\* lock of a device
HoldsStore(t) == rw.writer = t \/ t \in rw.readers
HoldsDevice(t) == \E r \in DOMAIN heap : heap[r].mu = t

\* the locks are held inside the methods that take them and nowhere else
LocksScoped ==
    \A t \in Threads :
        /\ HoldsStore(t) => pc[t] = "repo_cs"
        /\ HoldsDevice(t) => pc[t] \in {"sign_compose", "sign_commit", "sign_unlock"}
        /\ ~(HoldsStore(t) /\ HoldsDevice(t))

\* C33: no goroutine holds the store lock and a device lock at once, a
\* goroutine outside the store methods and SignTransaction holds no lock
\* whatever the call returned, and under a fair scheduler every store
\* operation, SignTransaction call and sign request that started completes
C33_NoDeadlock ==
    /\ []LocksScoped
    /\ \A t \in Threads : (pc[t] # "idle") ~> (pc[t] = "idle")

\* a goroutine holds the lock of a device while another holds the store lock
C33_Witness ==
    \E t, u \in Threads : t # u /\ HoldsDevice(t) /\ HoldsStore(u)

\* a goroutine waits for the lock of a device that another holds
DeviceLockWait_Witness ==
    \E t, u \in Threads :
        t # u /\ pc[t] = "sign_lock" /\ heap[loc[t].dev].mu = u

\* a goroutine waits for the store lock that another holds
StoreLockWait_Witness ==
    \E t, u \in Threads : t # u /\ pc[t] = "repo_lock" /\ HoldsStore(u)

\* a store operation has returned an error and the store lock is free
StoreErrorReturn_Witness ==
    /\ \E t \in Threads : pc[t] = "repo_ret" /\ loc[t].err
    /\ rw = [writer |-> 0, readers |-> {}]

\* a SignTransaction call of client code is on its error return, the
\* deferred unlock next, while another goroutine waits for the device
SignErrorReturn_Witness ==
    \E t, u \in Threads :
        /\ pc[t] = "sign_unlock" /\ loc[t].err /\ loc[t].ret = "client"
        /\ pc[u] = "sign_lock" /\ loc[u].dev = loc[t].dev

\* a sign request was answered 500 and no lock is held
RequestErrorReturn_Witness ==
    /\ \E t \in Threads : pc[t] = "h_done" /\ loc[t].status = 500
    /\ rw = [writer |-> 0, readers |-> {}]
    /\ \A r \in DOMAIN heap : heap[r].mu = 0

----------------------------------------------------------------------------
(* Properties of the key codec *)

\* the private-key tag and DER structure the marshaler of an algorithm writes
PrivateTag(algorithm) == IF algorithm = "RSA" THEN "RSA_PRIVATE_KEY" ELSE "PRIVATE_KEY"
PrivateDer(algorithm) == IF algorithm = "RSA" THEN "PKCS1" ELSE "SEC1-EC"

\* Unmarshal has returned
Decoded == codec.step \in {"decoded", "encoded again"}

\* C23: Unmarshal succeeds on a block that has the private-key tag of its
\* algorithm around a well-formed private key of that algorithm, and fails on
\* everything else: no block, malformed content, another tag
C23_UnmarshalChecksBlock ==
    Decoded =>
        (~codec.res.err <=> /\ codec.block.Type = PrivateTag(codec.algorithm)
                            /\ codec.block.der = PrivateDer(codec.algorithm))

\* the part that holds: no block or malformed content fails, and a correctly
\* tagged, well-formed block decodes to its key
UnmarshalChecksContent ==
    Decoded =>
        /\ (codec.block.Type = "" \/ codec.block.der # PrivateDer(codec.algorithm))
              => codec.res.err
        /\ (/\ codec.block.Type = PrivateTag(codec.algorithm)
            /\ codec.block.der = PrivateDer(codec.algorithm))
              => ~codec.res.err /\ codec.res.key = codec.block.key

\* the ECC decoder has decoded a block tagged as a public key / as an RSA
\* private key
WrongTagDecodes_Witness ==
    /\ Decoded
    /\ codec.algorithm = "ECC"
    /\ codec.block.Type = "PUBLIC_KEY"
    /\ ~codec.res.err

OtherAlgorithmTagDecodes_Witness ==
    /\ Decoded
    /\ codec.algorithm = "ECC"
    /\ codec.block.Type = "RSA_PRIVATE_KEY"
    /\ ~codec.res.err

\* the decoders fail on a missing block and on the other algorithm's key
UnmarshalFails_Witness ==
    Decoded /\ codec.res.err /\ codec.block = NilBytes

StoredKeyDecodes ==
    \A id \in DOMAIN devices :
        LET d == heap[devices[id]]
            signer == GetSigner(d, mem)
        IN  /\ ~signer.err
            /\ Marshal(d.Algorithm, signer.key).public = Bytes(mem, d.PublicKey)

----------------------------------------------------------------------------
(* Properties of ParseSecuredData *)

Underscores(s) == Cardinality({i \in 1..Len(s) : s[i] = "_"})

\* C7: ParseSecuredData of a composed "<c>_<rawData>_<lastSignature>" succeeds
\* and returns exactly (c, rawData, lastSignature), also when rawData holds
\* underscores (lastSignature holds none)
C7_ParseInvertsCompose ==
    (pres # NoRes /\ pcomp # NoComp /\ Underscores(pcomp.lastSignature) = 0)
        => /\ ~pres.err
           /\ pres.counter = pcomp.counter
           /\ pres.data = pcomp.data
           /\ pres.lastSignature = pcomp.lastSignature

\* C8: every input with fewer than two underscores is rejected
C8_FewerThanThreePartsFails ==
    (pres # NoRes /\ Underscores(pin) < 2) => pres = ParseError

\* the composed texts whose raw data holds no underscore do parse back
ParseInvertsCompose_NoUnderscore ==
    (pres # NoRes /\ pcomp # NoComp /\ Underscores(pcomp.data) = 0
                  /\ Underscores(pcomp.lastSignature) = 0)
        => pres = ParseResult(FALSE, pcomp.counter, pcomp.data, pcomp.lastSignature)

C8_Witness ==
    /\ pin = <<"a", "_", "a">>
    /\ pres = ParseError

IsUnsignedDecimal(s) == Len(s) > 0 /\ \A i \in 1..Len(s) : IsDigit(s[i])

\* C9: a three-part input whose first field is not an unsigned decimal
\* integer is rejected, and a successful parse returns a counter >= 0
C9_CounterFieldValidated ==
    (pres # NoRes /\ Underscores(pin) >= 2)
        => /\ ~IsUnsignedDecimal(SplitN(pin, "_", 3)[1]) => pres.err
           /\ ~pres.err => pres.counter >= 0

====
